---- MODULE Spec2Model ----
(***************************************************************************)
(* Channel ingestion and reconciliation engine of trevito-dashboard:       *)
(* the Supabase edge functions shiprocket, amazon, flipkart,               *)
(* flipkart-cancelled and vyapar, and the sales tables they write.         *)
(*                                                                         *)
(* Every `await` of a handler is one atomic step of the run that executes  *)
(* it; the code between two awaits belongs to the step of the later one.   *)
(***************************************************************************)
EXTENDS Integers, Sequences, FiniteSets, TLC

(***************************************************************************)
(* Bounds of the model.                                                    *)
(***************************************************************************)
MaxOrders == 2
MaxVal == 3
MaxFetch == 3
MaxTokens == 1
MaxTs == 2
MaxApply == 2
MaxKeyRows == 2
MaxExpiry == 5
MaxGeoIds == 4
MaxAmountLen == 3
MaxChunkSize == 3

OrderIds == 1..MaxOrders
Vals == 1..MaxVal
Tokens == 1..MaxTokens
Procs == {1, 2}

Channels == {"shiprocket", "amazon", "flipkart", "vyapar"}

\* The SKUs / order item ids a channel can report for one order.
KeySeq == <<"a", "b">>
Keys == {KeySeq[i] : i \in 1..Len(KeySeq)}

\* A null link / token, and a nextPageUrl that carries no next_token.
NoUrl == 0
NoTokenUrl == -1

\* api_keys.expiry: null, and a string that new Date() cannot parse.
NullExpiry == -1
BadExpiry == -2

\* 24 * 60 * 60 * 1000 ms, in ticks of the clock (one tick is half a day).
ONE_DAY_MS == 2
TEN_DAYS_MS == 10 * ONE_DAY_MS

\* api_keys.service, and api_keys.key (0: null or empty).
Services == {"shiprocket", "flipkart", "other"}
NoKey == 0

VARIABLES
  ordersTab,     \* sales.<channel>_orders : channel -> order id -> row
  itemsTab,      \* sales.<channel>_items  : channel -> order id -> key -> value
  last_updated,  \* sales.last_updated     : channel -> timestamp
  clock,         \* Date.now()
  feed,          \* what the channel APIs can currently report
  observed,      \* whether the runs keep the history of the pages they were served
  api_keys,      \* private.api_keys : the rows in id order, row i has id i
  geoTab,        \* sales.flipkart_orders : shipment id -> customer_* columns
  run            \* the invocations: proc -> local state of the handler

vars == <<ordersTab, itemsTab, last_updated, clock, feed, observed, api_keys, geoTab, run>>

(***************************************************************************)
(* Rows.  An order row holds the payload version v written by the last     *)
(* upsert (0: no row) and its last_accessed_at stamp; an item row holds    *)
(* the payload version it was written from (0: no row).                    *)
(***************************************************************************)
NoRow == [v |-> 0, at |-> 0]

\* The shipment ids of sales.flipkart_orders: those the channel reports
\* (OrderIds) and those of older rows it no longer reports.
GeoIds == 1..MaxGeoIds

\* The customer_city, customer_state and customer_pincode columns of a
\* flipkart_orders row (0: null); row tells whether the row exists.
NoGeoRow == [row |-> FALSE, city |-> 0, state |-> 0, pincode |-> 0]
NullGeo == [row |-> TRUE, city |-> 0, state |-> 0, pincode |-> 0]

\* A variant of GeoAfterUpsert in which the upsert replaces the whole row:
\* the columns missing from the payload become null.
GeoAfterUpsert_WholeRow(tab, ids) ==
  [i \in GeoIds |-> IF i \in ids THEN NullGeo ELSE tab[i]]

\* INSERT ... ON CONFLICT (shipment_id) DO UPDATE SET <payload columns> with
\* a payload that has no customer_* column: an inserted row takes null in
\* these columns, an existing row keeps them.
GeoAfterUpsert(tab, ids) ==
  [i \in GeoIds |-> IF i \in ids /\ ~tab[i].row THEN NullGeo ELSE tab[i]]

\* .delete().in('shipment_id', ids) on flipkart_orders removes the row with
\* all its columns.
GeoAfterDelete(tab, ids) ==
  [i \in GeoIds |-> IF i \in ids THEN NoGeoRow ELSE tab[i]]

\* The payload version that reports the last key only.
LastKeyOnly == Len(KeySeq) + 2

\* The products / orderItems of a raw order with payload version v:
\* version 1 reports every key, each later version one key less, down to
\* none; the versions after that report the last key only.
Products(v) ==
  IF v >= LastKeyOnly THEN SubSeq(KeySeq, Len(KeySeq), Len(KeySeq))
  ELSE SubSeq(KeySeq, 1, IF v > Len(KeySeq) THEN 0 ELSE Len(KeySeq) + 1 - v)

\* A raw order / shipment of a page: id (0: the id is missing), payload
\* version, updatedAt (0: absent, -1: unparseable), the sales channel flag,
\* and whether the first order item of a shipment lacks its orderId.
RawRecords ==
  [id : 0..MaxOrders, v : Vals, ts : -1..MaxTs, nonAmazon : BOOLEAN,
   noOrderId : BOOLEAN]

Range(s) == {s[i] : i \in 1..Len(s)}

RECURSIVE Flatten(_)
Flatten(ss) == IF ss = <<>> THEN <<>> ELSE Head(ss) \o Flatten(Tail(ss))

RECURSIVE SetToSeq(_)
SetToSeq(S) ==
  IF S = {} THEN <<>>
  ELSE LET m == CHOOSE x \in S : \A y \in S : x <= y
       IN <<m>> \o SetToSeq(S \ {m})

(***************************************************************************)
(* The store (PostgREST over PostgreSQL).                                  *)
(***************************************************************************)
\* INSERT ... ON CONFLICT DO UPDATE rejects a statement that proposes the
\* same conflict key twice ("cannot affect row a second time").
HasDuplicate(keys) ==
  \E i, j \in 1..Len(keys) : i < j /\ keys[i] = keys[j]

\* A variant of UpsertOrderRows that adds the proposed payload version to the
\* stored one instead of replacing it.
UpsertOrderRows_Accumulate(tab, rows, stamp, now) ==
  [o \in OrderIds |->
     IF \E i \in 1..Len(rows) : rows[i].id = o
     THEN LET r == rows[CHOOSE i \in 1..Len(rows) : rows[i].id = o]
          IN [v |-> tab[o].v + r.v,
              at |-> IF stamp # 0 THEN stamp
                     ELSE IF tab[o].v = 0 THEN now ELSE tab[o].at]
     ELSE tab[o]]

\* .upsert(rows, { onConflict: <order id> }): a row of the payload replaces
\* the stored row of its id.  stamp is the payload's last_accessed_at, 0 when
\* the payload has no such column: the column then keeps its value, or takes
\* its default now() when the row is inserted.
UpsertOrderRows(tab, rows, stamp, now) ==
  [o \in OrderIds |->
     IF \E i \in 1..Len(rows) : rows[i].id = o
     THEN LET r == rows[CHOOSE i \in 1..Len(rows) : rows[i].id = o]
          IN [v |-> r.v,
              at |-> IF stamp # 0 THEN stamp
                     ELSE IF tab[o].v = 0 THEN now ELSE tab[o].at]
     ELSE tab[o]]

\* A variant of UpsertItemRows that adds the proposed value to the stored
\* one instead of replacing it.
UpsertItemRows_Accumulate(tab, rows) ==
  [o \in OrderIds |-> [k \in Keys |->
     IF \E i \in 1..Len(rows) : rows[i].oid = o /\ rows[i].key = k
     THEN tab[o][k]
          + rows[CHOOSE i \in 1..Len(rows) : rows[i].oid = o /\ rows[i].key = k].v
     ELSE tab[o][k]]]

\* .upsert(rows, { onConflict: '<order id>,<item key>' })
UpsertItemRows(tab, rows) ==
  [o \in OrderIds |-> [k \in Keys |->
     IF \E i \in 1..Len(rows) : rows[i].oid = o /\ rows[i].key = k
     THEN rows[CHOOSE i \in 1..Len(rows) : rows[i].oid = o /\ rows[i].key = k].v
     ELSE tab[o][k]]]

\* A variant of DeleteItemsNotIn without the filter on the order id.
DeleteItemsNotIn_Global(tab, o, skus) ==
  [o2 \in OrderIds |-> [k \in Keys |-> IF k \in skus THEN tab[o2][k] ELSE 0]]

\* .delete().eq('shiprocket_order_id', o).not('sku', 'in', skus)
DeleteItemsNotIn(tab, o, skus) ==
  [tab EXCEPT ![o] = [k \in Keys |-> IF k \in skus THEN @[k] ELSE 0]]

\* .delete().in('<order id>', ids)
DeleteItemsIn(tab, ids) ==
  [o \in OrderIds |-> IF o \in ids THEN [k \in Keys |-> 0] ELSE tab[o]]

\* A variant of DeleteOrdersIn without the filter on the shipment id.
DeleteOrdersIn_All(tab, ids) == [o \in OrderIds |-> NoRow]

\* .delete().in('shipment_id', ids) on the orders table
DeleteOrdersIn(tab, ids) ==
  [o \in OrderIds |-> IF o \in ids THEN NoRow ELSE tab[o]]

\* Number of item rows / order rows a .select().in('shipment_id', ids) returns.
RECURSIVE SumOver(_, _)
SumOver(f, S) ==
  IF S = {} THEN 0
  ELSE LET x == CHOOSE y \in S : TRUE IN f[x] + SumOver(f, S \ {x})

CountItemsIn(tab, ids) ==
  SumOver([o \in OrderIds |-> Cardinality({k \in Keys : tab[o][k] # 0})],
          ids \cap OrderIds)

CountOrdersIn(tab, ids) ==
  Cardinality({o \in ids \cap OrderIds : tab[o].v # 0})

(***************************************************************************)
(* Normalisation shared by the sync handlers.                              *)
(***************************************************************************)
\* orders.map(order => row): the order rows of a batch, in batch order.
OrderRows(batch) == [i \in 1..Len(batch) |-> [id |-> batch[i].id, v |-> batch[i].v]]

\* orders.flatMap(order => order.products.map(...)): the item rows of a batch.
RECURSIVE ItemRows(_)
ItemRows(batch) ==
  IF batch = <<>> THEN <<>>
  ELSE LET o == Head(batch)
           ps == Products(o.v)
       IN [i \in 1..Len(ps) |-> [oid |-> o.id, key |-> ps[i], v |-> o.v]]
          \o ItemRows(Tail(batch))

OrderKeys(rows) == [i \in 1..Len(rows) |-> rows[i].id]
ItemKeys(rows) == [i \in 1..Len(rows) |-> <<rows[i].oid, rows[i].key>>]

\* skusByOrder: order id -> SKUs of the last batch entry with that id.
skusByOrder(batch) ==
  [o \in {batch[i].id : i \in 1..Len(batch)} |->
     LET last == CHOOSE i \in 1..Len(batch) :
                   /\ batch[i].id = o
                   /\ \A j \in 1..Len(batch) : batch[j].id = o => j <= i
     IN Range(Products(batch[last].v))]

\* Object.entries(skusByOrder) minus the entries the loop skips
\* (skus.length === 0): the order ids whose stale items are deleted,
\* in ascending key order.
CleanupEntries(batch) ==
  SetToSeq({o \in DOMAIN skusByOrder(batch) : skusByOrder(batch)[o] # {}})

(***************************************************************************)
(* Invocations.                                                            *)
(***************************************************************************)
Chan(kind) ==
  CASE kind \in {"shiprocket", "shiprocket-backfill"} -> "shiprocket"
    [] kind = "amazon" -> "amazon"
    [] kind = "vyapar" -> "vyapar"
    [] OTHER -> "flipkart"

\* new Map<string, FlipkartShipment>(): the entries in insertion order.
NoShipments == <<>>

IdleRun ==
  [kind |-> "none", pc |-> "idle", outcome |-> "none", failStage |-> "none",
   error |-> "none",
   orders |-> <<>>, nextUrl |-> NoUrl, hasMore |-> FALSE, fetches |-> 0,
   seenTokens |-> {}, filterIx |-> 0,
   shipments |-> NoShipments, shipmentMap |-> NoShipments,
   cleanupIx |-> 0, nowIso |-> 0,
   itemsRows |-> <<>>, geoEnrichTriggered |-> FALSE,
   cancelledShipmentIds |-> <<>>, itemsCount |-> 0, ordersCount |-> 0,
   method |-> "none", apiKeyRow |-> <<>>, token |-> NoKey,
   expectedCronSecret |-> 0, providedCronSecret |-> 0,
   rows |-> <<>>, now |-> 0, refreshTargets |-> <<>>,
   shiprocketToken |-> NoKey, shiprocketExpiry |-> NullExpiry,
   flipkartToken |-> NoKey, flipkartExpiry |-> NullExpiry,
   updateIx |-> 0, updatedServices |-> <<>>,
   \* history of the run, read by the properties only
   log |-> <<>>, filterLog |-> <<>>, out |-> <<>>, outLog |-> <<>>,
   returned |-> {}, loopHit |-> FALSE, lastSeen |-> FALSE,
   preOrders |-> <<>>, preItems |-> <<>>, preUpdated |-> <<>>,
   applied |-> 0, removedItems |-> 0, removedOrders |-> 0,
   selected |-> FALSE, authCalls |-> {}, preKeys |-> <<>>, retried |-> FALSE,
   \* flipkart-geo-enrich
   body |-> [shipmentIds |-> <<>>, limit |-> [t |-> "absent", n |-> 0]],
   shipmentIds |-> <<>>, selectionLimit |-> [t |-> "absent", n |-> 0],
   batchIx |-> 0, updates |-> <<>>, calls |-> <<>>, caller |-> 0,
   fromStore |-> FALSE, preGeo |-> <<>>, invokes |-> 0, invokedIds |-> <<>>,
   sheets |-> <<>>,
   \* the amounts of one line: as reported, and as written
   raw |-> <<>>, quantity |-> 0, written |-> <<>>]

\* A history value, kept only when the histories are observed.
Logged(x) == IF observed THEN x ELSE <<>>

Upd(p, changes) == run' = [run EXCEPT ![p] = changes @@ @]

\* catch (err): the handler answers 500 with the error's message; nothing
\* is rolled back.
FailWith(p, stage, error) ==
  /\ Upd(p, [pc |-> "failed", outcome |-> "failed", failStage |-> stage,
             error |-> error])
  /\ UNCHANGED <<ordersTab, itemsTab, last_updated, clock, feed, observed, api_keys, geoTab>>

\* A variant of Fail that notes the error and lets the run go on.
Fail_GoesOn(p, stage) ==
  /\ Upd(p, [outcome |-> "failed", failStage |-> stage, error |-> "store"])
  /\ UNCHANGED <<ordersTab, itemsTab, last_updated, clock, feed, observed, api_keys, geoTab>>

\* A channel answers with a non-success status, or the store returns an error.
Fail(p, stage) ==
  /\ Upd(p, [pc |-> "failed", outcome |-> "failed", failStage |-> stage,
             error |-> IF stage \in {"fetch", "token"} THEN "upstream" ELSE "store"])
  /\ UNCHANGED <<ordersTab, itemsTab, last_updated, clock, feed, observed, api_keys, geoTab>>

\* The pages a channel can answer with: no record or one record of its feed.
PageData(kind) == {<<>>} \cup {<<r>> : r \in feed[Chan(kind)]}

ApiKinds == {"shiprocket", "amazon", "flipkart", "flipkartGeo", "flipkart-cancelled"}

\* A POST request reaches one of the handlers that pull from a channel API.
Start(p, kind) ==
  /\ run[p].pc = "idle"
  /\ kind \in ApiKinds
  /\ clock' = clock + 1
  /\ Upd(p, [kind |-> kind, pc |-> IF kind = "amazon" THEN "token" ELSE "apiKey",
             method |-> "POST", filterIx |-> 1, hasMore |-> TRUE, applied |-> 1,
             preOrders |-> ordersTab, preItems |-> itemsTab,
             preUpdated |-> last_updated, preGeo |-> geoTab])
  /\ UNCHANGED <<ordersTab, itemsTab, last_updated, feed, observed, api_keys, geoTab>>

\* if (req.method === 'OPTIONS') return new Response('ok');
\* if (req.method !== 'POST') return 405 'Method not allowed': a request
\* with another method to a handler that checks the method ends here. The
\* refresh handler has no OPTIONS branch.
Methods == {"POST", "GET", "OPTIONS"}
GatedKinds == ApiKinds \cup {"vyapar", "refresh"}

Reject(p, kind, method) ==
  /\ run[p].pc = "idle"
  /\ kind \in GatedKinds /\ method \in Methods \ {"POST"}
  /\ clock' = clock + 1
  /\ Upd(p, [kind |-> kind, method |-> method, pc |-> "done",
             outcome |-> IF method = "OPTIONS" /\ kind # "refresh"
                         THEN "preflight" ELSE "methodNotAllowed",
             preOrders |-> ordersTab, preItems |-> itemsTab,
             preUpdated |-> last_updated])
  /\ UNCHANGED <<ordersTab, itemsTab, last_updated, feed, observed, api_keys, geoTab>>

\* A variant of LatestKeyRow that takes the row of the service with the
\* lowest id.
LatestKeyRow_Oldest(service) ==
  LET ids == {i \in 1..Len(api_keys) : api_keys[i].service = service}
  IN IF ids = {} THEN <<>>
     ELSE LET id == CHOOSE i \in ids : \A j \in ids : i <= j
          IN <<[key |-> api_keys[id].key, expiry |-> api_keys[id].expiry]>>

\* .eq('service', service).order('id', { ascending: false }).limit(1)
\* .maybeSingle(): the row of the service with the highest id, <<>> for null.
LatestKeyRow(service) ==
  LET ids == {i \in 1..Len(api_keys) : api_keys[i].service = service}
  IN IF ids = {} THEN <<>>
     ELSE LET id == CHOOSE i \in ids : \A j \in ids : j <= i
          IN <<[key |-> api_keys[id].key, expiry |-> api_keys[id].expiry]>>

\* privateClient.from('api_keys').select('key, expiry').eq('service', ...);
\* const token = apiKeyRow?.key; if (!token) throw. The expiry that was
\* selected is not read again.
ReadApiKey(p) ==
  LET r == run[p]
      apiKeyRow == LatestKeyRow(Chan(r.kind))
      token == IF apiKeyRow = <<>> THEN NoKey ELSE apiKeyRow[1].key
  IN
  /\ r.pc = "apiKey"
  /\ \/ Fail(p, "apiKey")
     \/ /\ token = NoKey
        /\ FailWith(p, "apiKey", "missing key")
     \/ /\ token # NoKey
        /\ Upd(p, [pc |-> IF r.kind = "geo-enrich" THEN "selectTargets" ELSE "fetch",
                   apiKeyRow |-> apiKeyRow, token |-> token])
        /\ UNCHANGED <<ordersTab, itemsTab, last_updated, clock, feed, observed, api_keys, geoTab>>

(***************************************************************************)
(* shiprocket                                                              *)
(***************************************************************************)
\* A variant of ShiprocketFetch that upserts the orders of each page as
\* soon as the page arrives.
ShiprocketFetch_WritesPages(p) ==
  LET r == run[p] IN
  /\ r.kind = "shiprocket" /\ r.pc = "fetch" /\ r.fetches < MaxFetch
  /\ \/ Fail(p, "fetch")
     \/ \E data \in PageData(r.kind), next \in {NoUrl} \cup Tokens :
          LET all == r.orders \o data IN
          /\ Upd(p, [orders |-> all, nextUrl |-> next, fetches |-> r.fetches + 1,
                     pc |-> IF next # NoUrl THEN "fetch"
                            ELSE IF Len(all) = 0 THEN "done" ELSE "upsertOrders",
                     outcome |-> IF next = NoUrl /\ Len(all) = 0
                                 THEN "empty" ELSE "none"])
          /\ ordersTab' = [ordersTab EXCEPT !["shiprocket"] =
                             UpsertOrderRows(@, OrderRows(data), 0, clock)]
          /\ UNCHANGED <<itemsTab, last_updated, clock, feed, observed, api_keys, geoTab>>

\* while (nextUrl) { fetch; orders.push(...page.data); nextUrl = links.next }
ShiprocketFetch(p) ==
  LET r == run[p] IN
  /\ r.kind = "shiprocket" /\ r.pc = "fetch" /\ r.fetches < MaxFetch
  /\ \/ Fail(p, "fetch")
     \/ \E data \in PageData(r.kind), next \in {NoUrl} \cup Tokens :
          LET all == r.orders \o data IN
          /\ Upd(p, [orders |-> all, nextUrl |-> next, fetches |-> r.fetches + 1,
                     pc |-> IF next # NoUrl THEN "fetch"
                            ELSE IF Len(all) = 0 THEN "done" ELSE "upsertOrders",
                     outcome |-> IF next = NoUrl /\ Len(all) = 0
                                 THEN "empty" ELSE "none",
                     log |-> Logged(Append(r.log, data)),
                     out |-> IF next = NoUrl THEN Logged(all) ELSE <<>>,
                     outLog |-> IF next = NoUrl THEN Logged(Append(r.log, data)) ELSE <<>>,
                     returned |-> r.returned \cup ({next} \ {NoUrl}),
                     loopHit |-> r.loopHit \/ next \in r.returned,
                     lastSeen |-> next = NoUrl])
          /\ UNCHANGED <<ordersTab, itemsTab, last_updated, clock, feed, observed, api_keys, geoTab>>

\* .from('shiprocket_orders').upsert(processedOrders, { onConflict: 'shiprocket_id' })
ShiprocketUpsertOrders(p) ==
  LET r == run[p]
      processedOrders == OrderRows(r.orders)
      itemsToInsert == ItemRows(r.orders)
  IN
  /\ r.kind = "shiprocket" /\ r.pc = "upsertOrders"
  /\ \/ Fail(p, "orders")
     \/ /\ HasDuplicate(OrderKeys(processedOrders))
        /\ FailWith(p, "orders", "duplicate")
     \/ /\ ~HasDuplicate(OrderKeys(processedOrders))
        /\ ordersTab' = [ordersTab EXCEPT !["shiprocket"] =
                           UpsertOrderRows(@, processedOrders, 0, clock)]
        /\ Upd(p, [pc |-> IF Len(itemsToInsert) > 0 THEN "upsertItems"
                          ELSE "lastUpdated"])
        /\ UNCHANGED <<itemsTab, last_updated, clock, feed, observed, api_keys, geoTab>>

\* .from('shiprocket_items').upsert(itemsToInsert, { onConflict: 'shiprocket_order_id,sku' })
ShiprocketUpsertItems(p) ==
  LET r == run[p]
      itemsToInsert == ItemRows(r.orders)
  IN
  /\ r.kind = "shiprocket" /\ r.pc = "upsertItems"
  /\ \/ Fail(p, "items")
     \/ /\ HasDuplicate(ItemKeys(itemsToInsert))
        /\ FailWith(p, "items", "duplicate")
     \/ /\ ~HasDuplicate(ItemKeys(itemsToInsert))
        /\ itemsTab' = [itemsTab EXCEPT !["shiprocket"] = UpsertItemRows(@, itemsToInsert)]
        /\ Upd(p, [pc |-> IF Len(CleanupEntries(r.orders)) > 0 THEN "cleanup"
                          ELSE "lastUpdated",
                   cleanupIx |-> 1])
        /\ UNCHANGED <<ordersTab, last_updated, clock, feed, observed, api_keys, geoTab>>

\* for (const [orderId, skus] of Object.entries(skusByOrder)) { delete ... }
ShiprocketCleanup(p) ==
  LET r == run[p]
      entries == CleanupEntries(r.orders)
      orderId == entries[r.cleanupIx]
  IN
  /\ r.kind = "shiprocket" /\ r.pc = "cleanup"
  /\ \/ Fail(p, "cleanup")
     \/ /\ itemsTab' = [itemsTab EXCEPT !["shiprocket"] =
                          DeleteItemsNotIn(@, orderId, skusByOrder(r.orders)[orderId])]
        /\ Upd(p, [pc |-> IF r.cleanupIx < Len(entries) THEN "cleanup"
                          ELSE "lastUpdated",
                   cleanupIx |-> r.cleanupIx + 1])
        /\ UNCHANGED <<ordersTab, last_updated, clock, feed, observed, api_keys, geoTab>>

\* A variant of UpsertLastUpdated that leaves the watermark alone when the
\* run has no record.
UpsertLastUpdated_SkipsEmpty(p) ==
  LET r == run[p] IN
  /\ r.pc = "lastUpdated"
  /\ \/ Fail(p, "lastUpdated")
     \/ /\ last_updated' = [last_updated EXCEPT ![Chan(r.kind)] =
                              IF Len(r.orders) = 0 THEN @ ELSE clock]
        /\ Upd(p, [pc |-> IF r.kind = "flipkartGeo" THEN "geoInvoke" ELSE "done",
                   outcome |-> IF r.kind = "flipkartGeo" THEN "none"
                               ELSE IF r.kind = "vyapar" /\ Len(r.orders) = 0
                               THEN "empty" ELSE "ok"])
        /\ UNCHANGED <<ordersTab, itemsTab, clock, feed, observed, api_keys, geoTab>>

\* A variant of UpsertLastUpdated that writes the shiprocket row whatever the
\* handler.
UpsertLastUpdated_OneRow(p) ==
  LET r == run[p] IN
  /\ r.pc = "lastUpdated"
  /\ \/ Fail(p, "lastUpdated")
     \/ /\ last_updated' = [last_updated EXCEPT !["shiprocket"] = clock]
        /\ Upd(p, [pc |-> IF r.kind = "flipkartGeo" THEN "geoInvoke" ELSE "done",
                   outcome |-> IF r.kind = "flipkartGeo" THEN "none"
                               ELSE IF r.kind = "vyapar" /\ Len(r.orders) = 0
                               THEN "empty" ELSE "ok"])
        /\ UNCHANGED <<ordersTab, itemsTab, clock, feed, observed, api_keys, geoTab>>

\* .from('last_updated').upsert({ channel, updated: new Date() }, { onConflict: 'channel' })
UpsertLastUpdated(p) ==
  LET r == run[p] IN
  /\ r.pc = "lastUpdated"
  /\ \/ Fail(p, "lastUpdated")
     \/ /\ last_updated' = [last_updated EXCEPT ![Chan(r.kind)] = clock]
        /\ Upd(p, [pc |-> IF r.kind = "flipkartGeo" THEN "geoInvoke" ELSE "done",
                   outcome |-> IF r.kind = "flipkartGeo" THEN "none"
                               ELSE IF r.kind = "vyapar" /\ Len(r.orders) = 0
                               THEN "empty" ELSE "ok"])
        /\ UNCHANGED <<ordersTab, itemsTab, clock, feed, observed, api_keys, geoTab>>

(***************************************************************************)
(* shiprocket-backfill: the same sync with SHIPROCKET_API_KEY taken from   *)
(* the environment, no check of the request method and no last_updated.    *)
(***************************************************************************)
\* Deno.serve(async (req) => { try { ... Deno.env.get('SHIPROCKET_API_KEY')
BackfillStart(p, method) ==
  /\ run[p].pc = "idle"
  /\ method \in Methods
  /\ clock' = clock + 1
  /\ \E shiprocketToken \in {NoKey, 1} :
       Upd(p, [kind |-> "shiprocket-backfill", method |-> method, applied |-> 1,
               token |-> shiprocketToken,
               pc |-> IF shiprocketToken = NoKey THEN "failed" ELSE "fetch",
               outcome |-> IF shiprocketToken = NoKey THEN "failed" ELSE "none",
               failStage |-> IF shiprocketToken = NoKey THEN "apiKey" ELSE "none",
               error |-> IF shiprocketToken = NoKey THEN "missing key" ELSE "none",
               preOrders |-> ordersTab, preItems |-> itemsTab,
               preUpdated |-> last_updated])
  /\ UNCHANGED <<ordersTab, itemsTab, last_updated, feed, observed, api_keys, geoTab>>

\* while (nextUrl) { fetch; orders.push(...page.data); nextUrl = links.next }
BackfillFetch(p) ==
  LET r == run[p] IN
  /\ r.kind = "shiprocket-backfill" /\ r.pc = "fetch" /\ r.fetches < MaxFetch
  /\ \/ Fail(p, "fetch")
     \/ \E data \in PageData(r.kind), next \in {NoUrl} \cup Tokens :
          LET all == r.orders \o data IN
          /\ Upd(p, [orders |-> all, nextUrl |-> next, fetches |-> r.fetches + 1,
                     pc |-> IF next # NoUrl THEN "fetch"
                            ELSE IF Len(all) = 0 THEN "done" ELSE "upsertOrders",
                     outcome |-> IF next = NoUrl /\ Len(all) = 0
                                 THEN "empty" ELSE "none"])
          /\ UNCHANGED <<ordersTab, itemsTab, last_updated, clock, feed, observed, api_keys, geoTab>>

\* .from('shiprocket_orders').upsert(processedOrders, { onConflict: 'shiprocket_id' })
BackfillUpsertOrders(p) ==
  LET r == run[p]
      processedOrders == OrderRows(r.orders)
      itemsToInsert == ItemRows(r.orders)
  IN
  /\ r.kind = "shiprocket-backfill" /\ r.pc = "upsertOrders"
  /\ \/ Fail(p, "orders")
     \/ /\ HasDuplicate(OrderKeys(processedOrders))
        /\ FailWith(p, "orders", "duplicate")
     \/ /\ ~HasDuplicate(OrderKeys(processedOrders))
        /\ ordersTab' = [ordersTab EXCEPT !["shiprocket"] =
                           UpsertOrderRows(@, processedOrders, 0, clock)]
        /\ Upd(p, [pc |-> IF Len(itemsToInsert) > 0 THEN "upsertItems" ELSE "done",
                   outcome |-> IF Len(itemsToInsert) > 0 THEN "none" ELSE "ok"])
        /\ UNCHANGED <<itemsTab, last_updated, clock, feed, observed, api_keys, geoTab>>

\* .from('shiprocket_items').upsert(itemsToInsert, { onConflict: 'shiprocket_order_id,sku' })
BackfillUpsertItems(p) ==
  LET r == run[p]
      itemsToInsert == ItemRows(r.orders)
  IN
  /\ r.kind = "shiprocket-backfill" /\ r.pc = "upsertItems"
  /\ \/ Fail(p, "items")
     \/ /\ HasDuplicate(ItemKeys(itemsToInsert))
        /\ FailWith(p, "items", "duplicate")
     \/ /\ ~HasDuplicate(ItemKeys(itemsToInsert))
        /\ itemsTab' = [itemsTab EXCEPT !["shiprocket"] = UpsertItemRows(@, itemsToInsert)]
        /\ Upd(p, [pc |-> IF Len(CleanupEntries(r.orders)) > 0 THEN "cleanup" ELSE "done",
                   outcome |-> IF Len(CleanupEntries(r.orders)) > 0 THEN "none" ELSE "ok",
                   cleanupIx |-> 1])
        /\ UNCHANGED <<ordersTab, last_updated, clock, feed, observed, api_keys, geoTab>>

\* for (const [orderId, skus] of Object.entries(skusByOrder)) {
\*   if (skus.length === 0) continue; delete ... }, then the 200 response.
BackfillCleanup(p) ==
  LET r == run[p]
      entries == CleanupEntries(r.orders)
      orderId == entries[r.cleanupIx]
  IN
  /\ r.kind = "shiprocket-backfill" /\ r.pc = "cleanup"
  /\ \/ Fail(p, "cleanup")
     \/ /\ itemsTab' = [itemsTab EXCEPT !["shiprocket"] =
                          DeleteItemsNotIn(@, orderId, skusByOrder(r.orders)[orderId])]
        /\ Upd(p, [pc |-> IF r.cleanupIx < Len(entries) THEN "cleanup" ELSE "done",
                   outcome |-> IF r.cleanupIx < Len(entries) THEN "none" ELSE "ok",
                   cleanupIx |-> r.cleanupIx + 1])
        /\ UNCHANGED <<ordersTab, last_updated, clock, feed, observed, api_keys, geoTab>>

(***************************************************************************)
(* amazon                                                                  *)
(***************************************************************************)
LowerCase ==
  <<"a", "b", "c", "d", "e", "f", "g", "h", "i", "j", "k", "l", "m",
    "n", "o", "p", "q", "r", "s", "t", "u", "v", "w", "x", "y", "z">>

UpperCase ==
  <<"A", "B", "C", "D", "E", "F", "G", "H", "I", "J", "K", "L", "M",
    "N", "O", "P", "Q", "R", "S", "T", "U", "V", "W", "X", "Y", "Z">>

\* String.prototype.toUpperCase over a sequence of characters: a lower-case
\* letter becomes its capital, every other character stays.
toUpperCase(s) ==
  [i \in 1..Len(s) |->
     IF \E k \in 1..Len(LowerCase) : LowerCase[k] = s[i]
     THEN UpperCase[CHOOSE k \in 1..Len(LowerCase) : LowerCase[k] = s[i]]
     ELSE s[i]]

NON_AMAZON == <<"N", "O", "N", "_", "A", "M", "A", "Z", "O", "N">>

\* The filter compares the name as it is, without toUpperCase.
IsNonAmazon_CaseSensitive(order) ==
  IF "channelName" \in DOMAIN order
  THEN order.channelName = NON_AMAZON
  ELSE order.nonAmazon

\* order.salesChannel?.channelName?.toUpperCase() === 'NON_AMAZON'.  A record
\* carries its channel name letter by letter (channelName) or, where the
\* letters play no part, the outcome of the comparison (nonAmazon).
IsNonAmazon(order) ==
  IF "channelName" \in DOMAIN order
  THEN toUpperCase(order.channelName) = NON_AMAZON
  ELSE order.nonAmazon

\* allOrders.filter(order => channelName?.toUpperCase() !== 'NON_AMAZON')
RECURSIVE filteredOrders(_)
filteredOrders(allOrders) ==
  IF allOrders = <<>> THEN <<>>
  ELSE (IF IsNonAmazon(Head(allOrders)) THEN <<>> ELSE <<Head(allOrders)>>)
       \o filteredOrders(Tail(allOrders))

\* await lwaAuthClient.getAccessToken()
AmazonGetAccessToken(p) ==
  LET r == run[p] IN
  /\ r.kind = "amazon" /\ r.pc = "token"
  /\ \/ Fail(p, "token")
     \/ /\ Upd(p, [pc |-> "fetch"])
        /\ UNCHANGED <<ordersTab, itemsTab, last_updated, clock, feed, observed, api_keys, geoTab>>

\* do { searchOrdersPage; allOrders.push(...pageOrders); nextToken = ... } while (nextToken)
AmazonFetch(p) ==
  LET r == run[p] IN
  /\ r.kind = "amazon" /\ r.pc = "fetch" /\ r.fetches < MaxFetch
  /\ \/ Fail(p, "fetch")
     \/ \E pageOrders \in PageData(r.kind), nextToken \in {NoUrl} \cup Tokens :
          LET allOrders == r.orders \o pageOrders
              kept == filteredOrders(allOrders)
          IN
          /\ Upd(p, [orders |-> allOrders, nextUrl |-> nextToken,
                     fetches |-> r.fetches + 1,
                     pc |-> IF nextToken # NoUrl THEN "fetch"
                            ELSE IF Len(kept) = 0 THEN "done" ELSE "upsertOrders",
                     outcome |-> IF nextToken = NoUrl /\ Len(kept) = 0
                                 THEN "empty" ELSE "none",
                     nowIso |-> clock,
                     log |-> Logged(Append(r.log, pageOrders)),
                     out |-> IF nextToken = NoUrl THEN Logged(allOrders) ELSE <<>>,
                     outLog |-> IF nextToken = NoUrl
                                THEN Logged(Append(r.log, pageOrders)) ELSE <<>>,
                     returned |-> r.returned \cup ({nextToken} \ {NoUrl}),
                     loopHit |-> r.loopHit \/ nextToken \in r.returned,
                     lastSeen |-> nextToken = NoUrl])
          /\ UNCHANGED <<ordersTab, itemsTab, last_updated, clock, feed, observed, api_keys, geoTab>>

\* .from('amazon_orders').upsert(ordersToUpsert, { onConflict: 'order_id' })
AmazonUpsertOrders(p) ==
  LET r == run[p]
      ordersToUpsert == OrderRows(filteredOrders(r.orders))
  IN
  /\ r.kind = "amazon" /\ r.pc = "upsertOrders"
  /\ \/ Fail(p, "orders")
     \/ /\ HasDuplicate(OrderKeys(ordersToUpsert))
        /\ FailWith(p, "orders", "duplicate")
     \/ /\ ~HasDuplicate(OrderKeys(ordersToUpsert))
        /\ ordersTab' = [ordersTab EXCEPT !["amazon"] =
                           UpsertOrderRows(@, ordersToUpsert, r.nowIso, clock)]
        /\ Upd(p, [pc |-> "cleanup"])
        /\ UNCHANGED <<itemsTab, last_updated, clock, feed, observed, api_keys, geoTab>>

\* .from('amazon_items').delete().in('order_id', orderIds)
AmazonCleanup(p) ==
  LET r == run[p]
      orderIds == Range(OrderKeys(OrderRows(filteredOrders(r.orders))))
      itemsToUpsert == ItemRows(filteredOrders(r.orders))
  IN
  /\ r.kind = "amazon" /\ r.pc = "cleanup"
  /\ \/ Fail(p, "cleanup")
     \/ /\ itemsTab' = [itemsTab EXCEPT !["amazon"] = DeleteItemsIn(@, orderIds)]
        /\ Upd(p, [pc |-> IF Len(itemsToUpsert) > 0 THEN "upsertItems"
                          ELSE "lastUpdated"])
        /\ UNCHANGED <<ordersTab, last_updated, clock, feed, observed, api_keys, geoTab>>

\* .from('amazon_items').upsert(itemsToUpsert, { onConflict: 'order_id,amazon_item_id' })
AmazonUpsertItems(p) ==
  LET r == run[p]
      itemsToUpsert == ItemRows(filteredOrders(r.orders))
  IN
  /\ r.kind = "amazon" /\ r.pc = "upsertItems"
  /\ \/ Fail(p, "items")
     \/ /\ HasDuplicate(ItemKeys(itemsToUpsert))
        /\ FailWith(p, "items", "duplicate")
     \/ /\ ~HasDuplicate(ItemKeys(itemsToUpsert))
        /\ itemsTab' = [itemsTab EXCEPT !["amazon"] = UpsertItemRows(@, itemsToUpsert)]
        /\ Upd(p, [pc |-> "lastUpdated"])
        /\ UNCHANGED <<ordersTab, last_updated, clock, feed, observed, api_keys, geoTab>>

(***************************************************************************)
(* flipkart                                                                *)
(***************************************************************************)
\* FILTERS: postDispatch, preDispatch
FILTERS == <<"postDispatch", "preDispatch">>

\* parseDate(updatedAt) ?? '': an absent (0) or unparseable (-1) value
\* gives '', which sorts below every ISO string.
parseDate(value) == IF value <= 0 THEN 0 ELSE value

\* getNextTokenFromUrl: the next_token parameter of a nextPageUrl, or null.
getNextTokenFromUrl(nextPageUrl) ==
  IF nextPageUrl \in Tokens THEN nextPageUrl ELSE NoUrl

\* A variant of MergeShipment that replaces only on a strictly later updatedAt.
MergeShipment_Strict(map, shipment) ==
  IF shipment.id = 0 THEN map
  ELSE IF ~\E i \in 1..Len(map) : map[i].id = shipment.id
       THEN Append(map, shipment)
  ELSE LET i == CHOOSE i \in 1..Len(map) : map[i].id = shipment.id
       IN IF parseDate(shipment.ts) > parseDate(map[i].ts)
          THEN [map EXCEPT ![i] = shipment]
          ELSE map

\* The per-shipment merge of a page into a Map keyed by shipmentId:
\* a record without shipmentId is skipped, a new id is appended, and an
\* id already present is replaced in place when incomingUpdated >= existingUpdated.
MergeShipment(map, shipment) ==
  IF shipment.id = 0 THEN map
  ELSE IF ~\E i \in 1..Len(map) : map[i].id = shipment.id
       THEN Append(map, shipment)
  ELSE LET i == CHOOSE i \in 1..Len(map) : map[i].id = shipment.id
       IN IF parseDate(shipment.ts) >= parseDate(map[i].ts)
          THEN [map EXCEPT ![i] = shipment]
          ELSE map

RECURSIVE MergePage(_, _)
MergePage(map, pageShipments) ==
  IF pageShipments = <<>> THEN map
  ELSE MergePage(MergeShipment(map, Head(pageShipments)), Tail(pageShipments))

\* for (const [shipmentId, shipment] of filterShipments.entries()) { ... }
MergeMaps(shipmentMap, filterShipments) == MergePage(shipmentMap, filterShipments)

\* Array.from(shipmentMap.values())
MapValues(shipmentMap) == shipmentMap

\* shipments.map(...).filter(Boolean): a shipment without a first order
\* item, or whose first order item has no orderId, gives no order row.
RECURSIVE ordersToUpsert(_)
ordersToUpsert(shipments) ==
  IF shipments = <<>> THEN <<>>
  ELSE (IF Len(Products(Head(shipments).v)) = 0 \/ Head(shipments).noOrderId THEN <<>>
        ELSE <<[id |-> Head(shipments).id, v |-> Head(shipments).v]>>)
       \o ordersToUpsert(Tail(shipments))

\* What the pages of the Flipkart filter API can carry.
FlipkartPages(kind) ==
  [shipments : PageData(kind), hasMore : BOOLEAN,
   nextPageUrl : {NoUrl, NoTokenUrl} \cup Tokens]

\* collectShipmentsForFilter, for each filter of FILTERS, and the merge of
\* its result into shipmentMap.
FlipkartFetch(p) ==
  LET r == run[p] IN
  /\ r.kind = "flipkart" /\ r.pc = "fetch" /\ r.fetches < MaxFetch
  /\ \/ Fail(p, "fetch")
     \/ \E page \in FlipkartPages(r.kind) :
          LET shipments == MergePage(r.shipments, page.shipments)
              last == ~page.hasMore \/ page.nextPageUrl = NoUrl
              nextToken == getNextTokenFromUrl(page.nextPageUrl)
              merged == MergeMaps(r.shipmentMap, shipments)
              hist == [log |-> Logged(Append(r.log, page.shipments)),
                       filterLog |-> Logged(Append(r.filterLog, page.shipments)),
                       out |-> IF last THEN Logged(shipments) ELSE <<>>,
                       outLog |-> IF last THEN Logged(Append(r.filterLog, page.shipments))
                                  ELSE <<>>,
                       returned |-> r.returned \cup
                                      (IF last THEN {} ELSE {nextToken} \ {NoUrl}),
                       loopHit |-> r.loopHit \/ (~last /\ nextToken \in r.returned),
                       lastSeen |-> last]
          IN
          /\ IF last
             THEN IF r.filterIx < Len(FILTERS)
                  THEN Upd(p, [returned |-> {}, lastSeen |-> FALSE, filterLog |-> <<>>]
                              @@ hist @@
                         [shipmentMap |-> merged, shipments |-> NoShipments,
                          seenTokens |-> {}, nextUrl |-> NoUrl, fetches |-> r.fetches + 1,
                          filterIx |-> r.filterIx + 1])
                  ELSE Upd(p, hist @@
                         [shipmentMap |-> merged, shipments |-> NoShipments,
                          seenTokens |-> {}, nextUrl |-> NoUrl,
                          fetches |-> r.fetches + 1,
                          orders |-> MapValues(merged), nowIso |-> clock,
                          pc |-> IF Len(MapValues(merged)) = 0 THEN "done"
                                 ELSE "upsertOrders",
                          outcome |-> IF Len(MapValues(merged)) = 0 THEN "empty"
                                      ELSE "none"])
             ELSE IF nextToken = NoUrl \/ nextToken \in r.seenTokens
                  THEN Upd(p, hist @@
                         [shipments |-> shipments, fetches |-> r.fetches + 1,
                          pc |-> "failed", outcome |-> "failed",
                          failStage |-> "fetch",
                          error |-> IF nextToken = NoUrl THEN "next_token missing"
                                    ELSE "pagination loop"])
                  ELSE Upd(p, hist @@
                         [shipments |-> shipments, fetches |-> r.fetches + 1,
                          seenTokens |-> r.seenTokens \cup {nextToken},
                          nextUrl |-> page.nextPageUrl])
          /\ UNCHANGED <<ordersTab, itemsTab, last_updated, clock, feed, observed, api_keys, geoTab>>

\* The older flipkart handler: while (hasMore) { fetchFilterPage(nextPageUrl);
\* merge into shipmentMap; hasMore = Boolean(page.hasMore);
\* nextPageUrl = page.nextPageUrl ?? null }
FlipkartGeoFetch(p) ==
  LET r == run[p] IN
  /\ r.kind = "flipkartGeo" /\ r.pc = "fetch" /\ r.fetches < MaxFetch
  /\ \/ Fail(p, "fetch")
     \/ \E page \in FlipkartPages(r.kind) :
          LET merged == MergePage(r.shipmentMap, page.shipments)
              last == ~page.hasMore \/ page.nextPageUrl = NoUrl
              hist == [log |-> Logged(Append(r.log, page.shipments)),
                       out |-> IF ~page.hasMore /\ r.filterIx = Len(FILTERS)
                               THEN Logged(merged) ELSE <<>>,
                       outLog |-> IF ~page.hasMore /\ r.filterIx = Len(FILTERS)
                                  THEN Logged(Append(r.log, page.shipments)) ELSE <<>>,
                       returned |-> r.returned \cup
                                      (IF last THEN {} ELSE {page.nextPageUrl}),
                       loopHit |-> r.loopHit
                                   \/ (~last /\ page.nextPageUrl \in r.returned),
                       lastSeen |-> last]
          IN
          /\ IF page.hasMore
             THEN Upd(p, hist @@
                    [shipmentMap |-> merged, hasMore |-> TRUE,
                     nextUrl |-> page.nextPageUrl, fetches |-> r.fetches + 1])
             ELSE IF r.filterIx < Len(FILTERS)
             THEN Upd(p, [returned |-> {}, lastSeen |-> FALSE] @@ hist @@
                    [shipmentMap |-> merged, hasMore |-> TRUE, nextUrl |-> NoUrl,
                     fetches |-> r.fetches + 1, filterIx |-> r.filterIx + 1])
             ELSE Upd(p, hist @@
                    [shipmentMap |-> merged, hasMore |-> FALSE, nextUrl |-> NoUrl,
                     fetches |-> r.fetches + 1,
                     orders |-> MapValues(merged), nowIso |-> clock,
                     pc |-> IF Len(MapValues(merged)) = 0 THEN "done"
                            ELSE "upsertOrders",
                     outcome |-> IF Len(MapValues(merged)) = 0 THEN "empty"
                                 ELSE "none"])
          /\ UNCHANGED <<ordersTab, itemsTab, last_updated, clock, feed, observed, api_keys, geoTab>>

FlipkartKinds == {"flipkart", "flipkartGeo"}

\* .from('flipkart_orders').upsert(ordersToUpsert, { onConflict: 'shipment_id' })
FlipkartUpsertOrders(p) ==
  LET r == run[p]
      rows == ordersToUpsert(r.orders)
      shipmentIds == Range(OrderKeys(rows))
  IN
  /\ r.kind \in FlipkartKinds /\ r.pc = "upsertOrders"
  /\ \/ Fail(p, "orders")
     \/ /\ HasDuplicate(OrderKeys(rows))
        /\ FailWith(p, "orders", "duplicate")
     \/ /\ ~HasDuplicate(OrderKeys(rows))
        /\ ordersTab' = [ordersTab EXCEPT !["flipkart"] =
                           UpsertOrderRows(@, rows, r.nowIso, clock)]
        /\ geoTab' = GeoAfterUpsert(geoTab, shipmentIds)
        /\ Upd(p, [pc |-> IF shipmentIds # {} THEN "cleanup"
                          ELSE IF Len(ItemRows(r.orders)) > 0 THEN "upsertItems"
                          ELSE "lastUpdated"])
        /\ UNCHANGED <<itemsTab, last_updated, clock, feed, observed, api_keys>>

\* .from('flipkart_items').delete().in('shipment_id', shipmentIds)
FlipkartCleanup(p) ==
  LET r == run[p]
      shipmentIds == Range(OrderKeys(ordersToUpsert(r.orders)))
  IN
  /\ r.kind \in FlipkartKinds /\ r.pc = "cleanup"
  /\ \/ Fail(p, "cleanup")
     \/ /\ itemsTab' = [itemsTab EXCEPT !["flipkart"] = DeleteItemsIn(@, shipmentIds)]
        /\ Upd(p, [pc |-> IF Len(ItemRows(r.orders)) > 0 THEN "upsertItems"
                          ELSE "lastUpdated"])
        /\ UNCHANGED <<ordersTab, last_updated, clock, feed, observed, api_keys, geoTab>>

\* .from('flipkart_items').upsert(itemsToUpsert, { onConflict: 'shipment_id,order_item_id' })
FlipkartUpsertItems(p) ==
  LET r == run[p]
      itemsToUpsert == ItemRows(r.orders)
  IN
  /\ r.kind \in FlipkartKinds /\ r.pc = "upsertItems"
  /\ \/ Fail(p, "items")
     \/ /\ HasDuplicate(ItemKeys(itemsToUpsert))
        /\ FailWith(p, "items", "duplicate")
     \/ /\ ~HasDuplicate(ItemKeys(itemsToUpsert))
        /\ itemsTab' = [itemsTab EXCEPT !["flipkart"] = UpsertItemRows(@, itemsToUpsert)]
        /\ Upd(p, [pc |-> "lastUpdated"])
        /\ UNCHANGED <<ordersTab, last_updated, clock, feed, observed, api_keys, geoTab>>

\* invokeClient.functions.invoke('flipkart-geo-enrich', { body: { shipmentIds } })
\* inside its own try/catch: a failure is reported in the 200 response.
GeoInvoke(p) ==
  LET r == run[p] IN
  /\ r.kind = "flipkartGeo" /\ r.pc = "geoInvoke"
  /\ \E triggered \in BOOLEAN :
       Upd(p, [pc |-> "done", outcome |-> "ok", geoEnrichTriggered |-> triggered])
  /\ UNCHANGED <<ordersTab, itemsTab, last_updated, clock, feed, observed, api_keys, geoTab>>

(***************************************************************************)
(* flipkart-geo-enrich                                                     *)
(***************************************************************************)
DETAILS_BATCH_LIMIT == 2
DEFAULT_SELECTION_LIMIT == 2
MAX_SELECTION_LIMIT == 3

\* body.limit: absent (or null), an integer n, or the fraction n + 1/2 (JSON
\* numbers are not restricted to integers).
AbsentLimit == [t |-> "absent", n |-> 0]
IntLimit(n) == [t |-> "integer", n |-> n]
FractionLimit(n) == [t |-> "fraction", n |-> n]
BodyLimits ==
  {AbsentLimit} \cup {IntLimit(n) : n \in -1..(MAX_SELECTION_LIMIT + 2)}
                \cup {FractionLimit(n) : n \in 0..MAX_SELECTION_LIMIT}

\* body.shipmentIds: absent or empty, or a list of ids (0: an empty string).
BodyIds == {<<>>, <<0>>, <<1>>, <<1, 1>>, <<0, 2>>, <<1, 2, 3>>, <<3, 4>>}

\* The request bodies: a list and no limit, or no list and any limit.
Bodies ==
  {[shipmentIds |-> ids, limit |-> AbsentLimit] : ids \in BodyIds}
    \cup {[shipmentIds |-> <<>>, limit |-> limit] : limit \in BodyLimits}

\* Math.min(Math.max(body.limit ?? DEFAULT_SELECTION_LIMIT, 1), 5000):
\* Math.max and Math.min compare numbers and round nothing, so a fraction
\* between the bounds stays as it is.
selectionLimit(limit) ==
  CASE limit.t = "absent" -> IntLimit(DEFAULT_SELECTION_LIMIT)
    [] limit.t = "fraction" ->
         IF limit.n < 1 THEN IntLimit(1)
         ELSE IF limit.n >= MAX_SELECTION_LIMIT THEN IntLimit(MAX_SELECTION_LIMIT)
         ELSE limit
    [] OTHER ->
         LET atLeast == IF limit.n > 1 THEN limit.n ELSE 1
         IN IntLimit(IF atLeast < MAX_SELECTION_LIMIT THEN atLeast
                     ELSE MAX_SELECTION_LIMIT)

\* Array.from(new Set(body.shipmentIds.filter(Boolean))): the truthy ids in
\* the order of their first occurrence.
RECURSIVE UniqueIds(_, _)
UniqueIds(ids, seen) ==
  IF ids = <<>> THEN <<>>
  ELSE IF Head(ids) = 0 \/ Head(ids) \in seen THEN UniqueIds(Tail(ids), seen)
  ELSE <<Head(ids)>> \o UniqueIds(Tail(ids), seen \cup {Head(ids)})

\* .or('customer_city.is.null,customer_state.is.null,customer_pincode.is.null')
MissingGeo(tab) ==
  {i \in GeoIds : tab[i].row /\ (tab[i].city = 0 \/ tab[i].state = 0 \/ tab[i].pincode = 0)}

\* .select('shipment_id').or(...).limit(selectionLimit): without ORDER BY any
\* matching rows, as many as the limit allows. A limit that is no integer is
\* sent as it is (limit=1.5); the store reads the parameter as an integer,
\* and either rejects the request (the store error of the action) or applies
\* no limit of the request.
SelectedRows(tab, limit) ==
  IF limit.t = "integer"
  THEN {S \in SUBSET MissingGeo(tab) :
          Cardinality(S) = (IF limit.n < Cardinality(MissingGeo(tab))
                            THEN limit.n ELSE Cardinality(MissingGeo(tab)))}
  ELSE {MissingGeo(tab)}

\* The slices are taken chunkSize apart but one element short each.
RECURSIVE chunkArray_DropsLast(_, _)
chunkArray_DropsLast(items, chunkSize) ==
  IF items = <<>> THEN <<>>
  ELSE IF Len(items) < chunkSize THEN <<items>>
  ELSE <<SubSeq(items, 1, chunkSize - 1)>>
       \o chunkArray_DropsLast(SubSeq(items, chunkSize + 1, Len(items)), chunkSize)

\* chunkArray(items, chunkSize)
RECURSIVE chunkArray(_, _)
chunkArray(items, chunkSize) ==
  IF items = <<>> THEN <<>>
  ELSE IF Len(items) <= chunkSize THEN <<items>>
  ELSE <<SubSeq(items, 1, chunkSize)>>
       \o chunkArray(SubSeq(items, chunkSize + 1, Len(items)), chunkSize)

\* deliveryAddress of a shipment in the details response: complete, without
\* pin code, or absent.
Addresses ==
  {[city |-> 1, state |-> 1, pincode |-> 1], [city |-> 1, state |-> 1, pincode |-> 0],
   [city |-> 0, state |-> 0, pincode |-> 0]}

\* The POST request; req.json().catch(() => ({})) gives the body.
GeoStart(p) ==
  /\ run[p].pc = "idle"
  /\ clock' = clock + 1
  /\ \E body \in Bodies :
       Upd(p, [kind |-> "geo-enrich", method |-> "POST", pc |-> "apiKey",
             body |-> body, caller |-> 0,
             preOrders |-> ordersTab, preItems |-> itemsTab,
             preUpdated |-> last_updated, preGeo |-> geoTab])
  /\ UNCHANGED <<ordersTab, itemsTab, last_updated, feed, observed, api_keys, geoTab>>

\* The target selection: the explicit list, or the stored orders that miss a
\* geo column. An empty target list ends the run with a message.
GeoSelectTargets(p) ==
  LET r == run[p]
      explicit == Len(r.body.shipmentIds) > 0
      limit == selectionLimit(r.body.limit)
      Selected(ids, fromStore) ==
        Upd(p, [shipmentIds |-> ids, fromStore |-> fromStore,
                selectionLimit |-> IF fromStore THEN limit ELSE AbsentLimit,
                batchIx |-> 1,
                calls |-> IF ids = <<>> THEN <<>>
                          ELSE <<chunkArray(ids, DETAILS_BATCH_LIMIT)[1]>>,
                pc |-> IF ids = <<>> THEN "done" ELSE "details",
                outcome |-> IF ids = <<>> THEN "empty" ELSE "none"])
  IN
  /\ r.kind = "geo-enrich" /\ r.pc = "selectTargets"
  /\ \/ /\ explicit
        /\ Selected(UniqueIds(r.body.shipmentIds, {}), FALSE)
        /\ UNCHANGED <<ordersTab, itemsTab, last_updated, clock, feed, observed, api_keys, geoTab>>
     \/ /\ ~explicit
        /\ Fail(p, "select")
     \/ /\ ~explicit
        /\ \E S \in SelectedRows(geoTab, limit) : Selected(SetToSeq(S), TRUE)
        /\ UNCHANGED <<ordersTab, itemsTab, last_updated, clock, feed, observed, api_keys, geoTab>>

\* for (const batch of batches) { details = await fetchShipmentDetails(token,
\* batch); for (const shipment of details.shipments ?? []) updates.push(...) }
\* The channel answers for some of the requested shipments. In "details" the
\* call for batch batchIx is under way; calls lists the batches requested.
GeoFetchDetails(p) ==
  LET r == run[p]
      batches == chunkArray(r.shipmentIds, DETAILS_BATCH_LIMIT)
      batch == batches[r.batchIx]
  IN
  /\ r.kind = "geo-enrich" /\ r.pc = "details" /\ r.batchIx <= Len(batches)
  /\ \/ Fail(p, "fetch")
     \/ \E answered \in SUBSET Range(batch), address \in Addresses :
          LET found == SelectSeq(batch, LAMBDA id : id \in answered)
              rows == [i \in 1..Len(found) |->
                         [id |-> found[i], city |-> address.city,
                          state |-> address.state, pincode |-> address.pincode]]
              updates == r.updates \o rows
              last == r.batchIx = Len(batches)
          IN
          /\ Upd(p, [updates |-> updates, batchIx |-> r.batchIx + 1,
                     calls |-> IF last THEN r.calls
                               ELSE Append(r.calls, batches[r.batchIx + 1]),
                     pc |-> IF ~last THEN "details"
                            ELSE IF Len(updates) > 0 THEN "geoUpsert" ELSE "done",
                     outcome |-> IF last /\ Len(updates) = 0 THEN "ok" ELSE "none"])
          /\ UNCHANGED <<ordersTab, itemsTab, last_updated, clock, feed, observed, api_keys, geoTab>>

\* The payload of the geo upsert: shipment_id, order_id, customer_city,
\* customer_state, customer_pincode, last_accessed_at. An inserted row takes
\* null in payment_type, an existing row keeps its payment_type.
NullPayment == -1

GeoUpsertOrders(tab, updates, now) ==
  [o \in OrderIds |->
     IF \E i \in 1..Len(updates) : updates[i].id = o
     THEN [v |-> IF tab[o].v = 0 THEN NullPayment ELSE tab[o].v, at |-> now]
     ELSE tab[o]]

GeoUpsertColumns(tab, updates) ==
  [g \in GeoIds |->
     IF \E i \in 1..Len(updates) : updates[i].id = g
     THEN LET u == updates[CHOOSE i \in 1..Len(updates) : updates[i].id = g]
          IN [row |-> TRUE, city |-> u.city, state |-> u.state, pincode |-> u.pincode]
     ELSE tab[g]]

\* .from('flipkart_orders').upsert(updates, { onConflict: 'shipment_id' })
GeoUpsert(p) ==
  LET r == run[p] IN
  /\ r.kind = "geo-enrich" /\ r.pc = "geoUpsert"
  /\ clock' = clock + 1
  /\ \/ /\ Upd(p, [pc |-> "failed", outcome |-> "failed", failStage |-> "orders",
                   error |-> "store"])
        /\ UNCHANGED <<ordersTab, geoTab>>
     \/ /\ ordersTab' = [ordersTab EXCEPT !["flipkart"] =
                           GeoUpsertOrders(@, r.updates, clock)]
        /\ geoTab' = GeoUpsertColumns(geoTab, r.updates)
        /\ Upd(p, [pc |-> "done", outcome |-> "ok"])
  /\ UNCHANGED <<itemsTab, last_updated, feed, observed, api_keys>>

\* invokeClient.functions.invoke('flipkart-geo-enrich', { body: { shipmentIds } }):
\* the request starts an enrichment run, or does not reach the function.
GeoInvokeCall(p, q) ==
  LET r == run[p]
      shipmentIds == OrderKeys(ordersToUpsert(r.orders))
      body == [shipmentIds |-> shipmentIds, limit |-> AbsentLimit]
  IN
  /\ r.kind = "flipkartGeo" /\ r.pc = "geoInvoke" /\ q # p
  /\ run[q].pc = "idle"
  /\ clock' = clock + 1
  /\ run' = [run EXCEPT
               ![p] = [pc |-> "geoAwait", invokes |-> r.invokes + 1,
                       invokedIds |-> shipmentIds] @@ @,
               ![q] = [kind |-> "geo-enrich", method |-> "POST", pc |-> "apiKey",
                       body |-> body, caller |-> p,
                       preOrders |-> ordersTab, preItems |-> itemsTab,
                       preUpdated |-> last_updated, preGeo |-> geoTab] @@ @]
  /\ UNCHANGED <<ordersTab, itemsTab, last_updated, feed, observed, api_keys, geoTab>>

\* catch (err) { geoEnrichError = ... }: the request did not reach the function.
GeoInvokeUnreached(p) ==
  LET r == run[p] IN
  /\ r.kind = "flipkartGeo" /\ r.pc = "geoInvoke"
  /\ Upd(p, [pc |-> "done", outcome |-> "ok", geoEnrichTriggered |-> FALSE,
             invokes |-> r.invokes + 1,
             invokedIds |-> OrderKeys(ordersToUpsert(r.orders))])
  /\ UNCHANGED <<ordersTab, itemsTab, last_updated, clock, feed, observed, api_keys, geoTab>>

\* if (invokeResult.error) geoEnrichError = ... else geoEnrichTriggered = true;
\* the sync answers 200 in both cases.
GeoInvokeReturn(p, q) ==
  LET r == run[p] IN
  /\ r.kind = "flipkartGeo" /\ r.pc = "geoAwait"
  /\ run[q].kind = "geo-enrich" /\ run[q].caller = p
  /\ run[q].pc \in {"done", "failed"}
  /\ Upd(p, [pc |-> "done", outcome |-> "ok",
             geoEnrichTriggered |-> run[q].pc = "done"])
  /\ UNCHANGED <<ordersTab, itemsTab, last_updated, clock, feed, observed, api_keys, geoTab>>

(***************************************************************************)
(* flipkart-cancelled                                                      *)
(***************************************************************************)
\* The cancelled filter reports shipments by id only.
CancelledPages ==
  [shipments : {<<>>} \cup {<<[id |-> i, v |-> 1, ts |-> 0, nonAmazon |-> FALSE, noOrderId |-> FALSE]>> :
                              i \in {r.id : r \in feed["flipkart"]}},
   hasMore : BOOLEAN,
   nextPageUrl : {NoUrl, NoTokenUrl} \cup Tokens]

\* shipmentIds.add(shipment.shipmentId) for the shipments of a page
RECURSIVE AddShipmentIds(_, _)
AddShipmentIds(shipmentIds, pageShipments) ==
  IF pageShipments = <<>> THEN shipmentIds
  ELSE AddShipmentIds(
         IF Head(pageShipments).id = 0 \/ Head(pageShipments).id \in Range(shipmentIds)
         THEN shipmentIds ELSE Append(shipmentIds, Head(pageShipments).id),
         Tail(pageShipments))

\* collectCancelledShipmentIds
CancelledFetch(p) ==
  LET r == run[p] IN
  /\ r.kind = "flipkart-cancelled" /\ r.pc = "fetch" /\ r.fetches < MaxFetch
  /\ \/ Fail(p, "fetch")
     \/ \E page \in CancelledPages :
          LET shipmentIds == AddShipmentIds(r.cancelledShipmentIds, page.shipments)
              last == ~page.hasMore \/ page.nextPageUrl = NoUrl
              nextToken == getNextTokenFromUrl(page.nextPageUrl)
              hist == [log |-> Logged(Append(r.log, page.shipments)),
                       out |-> IF last THEN Logged(shipmentIds) ELSE <<>>,
                       outLog |-> IF last THEN Logged(Append(r.log, page.shipments)) ELSE <<>>,
                       returned |-> r.returned \cup
                                      (IF last THEN {} ELSE {nextToken} \ {NoUrl}),
                       loopHit |-> r.loopHit \/ (~last /\ nextToken \in r.returned),
                       lastSeen |-> last,
                       cancelledShipmentIds |-> shipmentIds,
                       fetches |-> r.fetches + 1]
          IN
          /\ IF last
             THEN Upd(p, hist @@
                    [pc |-> IF Len(shipmentIds) = 0 THEN "done" ELSE "selectItems",
                     outcome |-> IF Len(shipmentIds) = 0 THEN "empty" ELSE "none"])
             ELSE IF nextToken = NoUrl \/ nextToken \in r.seenTokens
                  THEN Upd(p, hist @@
                         [pc |-> "failed", outcome |-> "failed", failStage |-> "fetch",
                          error |-> IF nextToken = NoUrl THEN "next_token missing"
                                    ELSE "pagination loop"])
                  ELSE Upd(p, hist @@
                         [seenTokens |-> r.seenTokens \cup {nextToken},
                          nextUrl |-> page.nextPageUrl])
          /\ UNCHANGED <<ordersTab, itemsTab, last_updated, clock, feed, observed, api_keys, geoTab>>

\* .from('flipkart_items').select('id').in('shipment_id', cancelledShipmentIds)
CancelledSelectItems(p) ==
  LET r == run[p] IN
  /\ r.kind = "flipkart-cancelled" /\ r.pc = "selectItems"
  /\ \/ Fail(p, "selectItems")
     \/ /\ Upd(p, [pc |-> "deleteItems",
                   itemsCount |-> CountItemsIn(itemsTab["flipkart"],
                                               Range(r.cancelledShipmentIds))])
        /\ UNCHANGED <<ordersTab, itemsTab, last_updated, clock, feed, observed, api_keys, geoTab>>

\* .from('flipkart_items').delete().in('shipment_id', cancelledShipmentIds)
CancelledDeleteItems(p) ==
  LET r == run[p] IN
  /\ r.kind = "flipkart-cancelled" /\ r.pc = "deleteItems"
  /\ \/ Fail(p, "deleteItems")
     \/ /\ itemsTab' = [itemsTab EXCEPT !["flipkart"] =
                          DeleteItemsIn(@, Range(r.cancelledShipmentIds))]
        /\ Upd(p, [pc |-> "selectOrders",
                   removedItems |-> CountItemsIn(itemsTab["flipkart"],
                                                 Range(r.cancelledShipmentIds))])
        /\ UNCHANGED <<ordersTab, last_updated, clock, feed, observed, api_keys, geoTab>>

\* .from('flipkart_orders').select('shipment_id').in('shipment_id', cancelledShipmentIds)
CancelledSelectOrders(p) ==
  LET r == run[p] IN
  /\ r.kind = "flipkart-cancelled" /\ r.pc = "selectOrders"
  /\ \/ Fail(p, "selectOrders")
     \/ /\ Upd(p, [pc |-> "deleteOrders",
                   ordersCount |-> CountOrdersIn(ordersTab["flipkart"],
                                                 Range(r.cancelledShipmentIds))])
        /\ UNCHANGED <<ordersTab, itemsTab, last_updated, clock, feed, observed, api_keys, geoTab>>

\* .from('flipkart_orders').delete().in('shipment_id', cancelledShipmentIds)
CancelledDeleteOrders(p) ==
  LET r == run[p] IN
  /\ r.kind = "flipkart-cancelled" /\ r.pc = "deleteOrders"
  /\ \/ Fail(p, "deleteOrders")
     \/ /\ ordersTab' = [ordersTab EXCEPT !["flipkart"] =
                           DeleteOrdersIn(@, Range(r.cancelledShipmentIds))]
        /\ geoTab' = GeoAfterDelete(geoTab, Range(r.cancelledShipmentIds))
        /\ Upd(p, [pc |-> "done", outcome |-> "ok",
                   removedOrders |-> CountOrdersIn(ordersTab["flipkart"],
                                                   Range(r.cancelledShipmentIds))])
        /\ UNCHANGED <<itemsTab, last_updated, clock, feed, observed, api_keys>>

(***************************************************************************)
(* vyapar                                                                  *)
(***************************************************************************)
\* The rows of the uploaded workbook with Transaction Type 'sale': invoice
\* number (0: parseInteger gives null or 0) and date (0: parseDateFromVyapar
\* gives null); and the rows of the Sale Items sheet.
SaleDates == {0, 2}
SaleReportRows == [inv : 0..MaxOrders, date : SaleDates]
SaleItemsRows == [inv : 0..MaxOrders, sku : Keys, quantity : {2}, amount : {2}, gst : {0}]

\* The cells of a Sale Items line: Quantity in halves of a unit, Amount and
\* GST in halves of a hundredth; NullCell is a cell that is empty or gives
\* NaN, for which the parser returns null.
NullCell == -1

\* parseInteger: Math.round(parseNumber(value)), for a value in halves.
parseInteger(halves) == (halves + 1) \div 2

\* Number(item.net_price.toFixed(2)), for a value in halves of a hundredth:
\* the nearest hundredth.
toFixed2(halves) == (halves + 1) \div 2

UpTo2(S) == {<<>>} \cup {<<x>> : x \in S} \cup {<<x, y>> : x \in S, y \in S}

\* A variant of salesRows that keeps the rows whose date does not parse.
RECURSIVE salesRows_KeepsUndated(_)
salesRows_KeepsUndated(saleReportRows) ==
  IF saleReportRows = <<>> THEN <<>>
  ELSE LET row == Head(saleReportRows)
       IN (IF row.inv = 0 THEN <<>>
           ELSE <<[id |-> row.inv, v |-> row.date]>>)
          \o salesRows_KeepsUndated(Tail(saleReportRows))

\* saleReportRows.filter(...).map(...).filter(row => row != null)
RECURSIVE salesRows(_)
salesRows(saleReportRows) ==
  IF saleReportRows = <<>> THEN <<>>
  ELSE LET row == Head(saleReportRows)
       IN (IF row.inv = 0 \/ row.date = 0 THEN <<>>
           ELSE <<[id |-> row.inv, v |-> row.date]>>)
          \o salesRows(Tail(saleReportRows))

\* if (!invoiceNo || !sku || quantity == null || amount == null || gst == null) continue
ValidLine(row) ==
  row.inv # 0 /\ row.quantity # NullCell /\ row.amount # NullCell /\ row.gst # NullCell

\* A variant of itemAggregate in which a further line of a known
\* (invoice, sku) replaces the quantity and net price instead of adding.
RECURSIVE itemAggregate_LastWins(_, _, _)
itemAggregate_LastWins(acc, saleItemsRows, validInvoices) ==
  IF saleItemsRows = <<>> THEN acc
  ELSE LET row == Head(saleItemsRows)
           rest == Tail(saleItemsRows)
       IN IF ~ValidLine(row) \/ row.inv \notin validInvoices
          THEN itemAggregate_LastWins(acc, rest, validInvoices)
          ELSE IF \E i \in 1..Len(acc) : acc[i].oid = row.inv /\ acc[i].key = row.sku
          THEN LET i == CHOOSE i \in 1..Len(acc) :
                          acc[i].oid = row.inv /\ acc[i].key = row.sku
               IN itemAggregate_LastWins(
                    [acc EXCEPT ![i].v = parseInteger(row.quantity),
                                ![i].net = row.amount - row.gst],
                    rest, validInvoices)
          ELSE itemAggregate_LastWins(
                 Append(acc, [oid |-> row.inv, key |-> row.sku,
                              v |-> parseInteger(row.quantity),
                              net |-> row.amount - row.gst]),
                 rest, validInvoices)

\* The itemAggregate loop: a line that is not valid or whose invoice is not
\* in validInvoices is skipped, a line of a known (invoice, sku) adds to its
\* quantity and net price.
RECURSIVE itemAggregate(_, _, _)
itemAggregate(acc, saleItemsRows, validInvoices) ==
  IF saleItemsRows = <<>> THEN acc
  ELSE LET row == Head(saleItemsRows)
           rest == Tail(saleItemsRows)
       IN IF ~ValidLine(row) \/ row.inv \notin validInvoices
          THEN itemAggregate(acc, rest, validInvoices)
          ELSE IF \E i \in 1..Len(acc) : acc[i].oid = row.inv /\ acc[i].key = row.sku
          THEN LET i == CHOOSE i \in 1..Len(acc) :
                          acc[i].oid = row.inv /\ acc[i].key = row.sku
               IN itemAggregate(
                    [acc EXCEPT ![i].v = @ + parseInteger(row.quantity),
                                ![i].net = @ + (row.amount - row.gst)],
                    rest, validInvoices)
          ELSE itemAggregate(
                 Append(acc, [oid |-> row.inv, key |-> row.sku,
                              v |-> parseInteger(row.quantity),
                              net |-> row.amount - row.gst]),
                 rest, validInvoices)

\* Array.from(itemAggregate.values()).map(item => ({ ..., net_price:
\* Number(item.net_price.toFixed(2)) }))
itemsRows(aggregate) ==
  [i \in 1..Len(aggregate) |->
     [oid |-> aggregate[i].oid, key |-> aggregate[i].key, v |-> aggregate[i].v,
      net_price |-> toFixed2(aggregate[i].net)]]

\* The workbooks of the uploads whose lines carry fractions: a Sale Report
\* with valid and invalid rows, and up to two Sale Items lines.
UploadReports ==
  {<<>>, <<[inv |-> 1, date |-> 2]>>, <<[inv |-> 1, date |-> 2], [inv |-> 2, date |-> 2]>>,
   <<[inv |-> 1, date |-> 0], [inv |-> 2, date |-> 2]>>,
   <<[inv |-> 0, date |-> 2], [inv |-> 1, date |-> 2]>>,
   <<[inv |-> 1, date |-> 2], [inv |-> 1, date |-> 2]>>}

UploadCells ==
  {[quantity |-> 2, amount |-> 4, gst |-> 0], [quantity |-> 1, amount |-> 3, gst |-> 0],
   [quantity |-> 3, amount |-> 5, gst |-> 2], [quantity |-> NullCell, amount |-> 4, gst |-> 0]}

UploadLines ==
  {[inv |-> inv, sku |-> sku, quantity |-> c.quantity, amount |-> c.amount, gst |-> c.gst] :
     inv \in 0..MaxOrders, sku \in Keys, c \in UploadCells}

\* A POST with a workbook reaches the vyapar handler, which parses it; sheets
\* is the workbook as far as the history of the run keeps it.
VyaparParse(p, saleReportRows, saleItemsRows, sheets) ==
  LET sales == salesRows(saleReportRows)
      validInvoices == {sales[i].id : i \in 1..Len(sales)}
  IN Upd(p, [kind |-> "vyapar", method |-> "POST", applied |-> 1,
             pc |-> IF Len(sales) = 0 THEN "lastUpdated" ELSE "upsertOrders",
             orders |-> sales,
             itemsRows |-> itemsRows(itemAggregate(<<>>, saleItemsRows, validInvoices)),
             sheets |-> sheets,
             preOrders |-> ordersTab, preItems |-> itemsTab,
             preUpdated |-> last_updated])

VyaparStart(p) ==
  /\ run[p].pc = "idle"
  /\ clock' = clock + 1
  /\ \E saleReportRows \in UpTo2(SaleReportRows), saleItemsRows \in UpTo2(SaleItemsRows) :
       VyaparParse(p, saleReportRows, saleItemsRows, <<>>)
  /\ UNCHANGED <<ordersTab, itemsTab, last_updated, feed, observed, api_keys, geoTab>>

\* An upload whose Sale Items lines carry fractional quantities and amounts.
VyaparUpload(p) ==
  /\ run[p].pc = "idle"
  /\ clock' = clock + 1
  /\ \E saleReportRows \in UploadReports, saleItemsRows \in UpTo2(UploadLines) :
       VyaparParse(p, saleReportRows, saleItemsRows,
                   <<[report |-> saleReportRows, items |-> saleItemsRows]>>)
  /\ UNCHANGED <<ordersTab, itemsTab, last_updated, feed, observed, api_keys, geoTab>>

\* .from('vyapar_sales').upsert(salesRows, { onConflict: 'invoice_no' })
VyaparUpsertSales(p) ==
  LET r == run[p] IN
  /\ r.kind = "vyapar" /\ r.pc = "upsertOrders"
  /\ \/ Fail(p, "orders")
     \/ /\ HasDuplicate(OrderKeys(r.orders))
        /\ FailWith(p, "orders", "duplicate")
     \/ /\ ~HasDuplicate(OrderKeys(r.orders))
        /\ ordersTab' = [ordersTab EXCEPT !["vyapar"] =
                           UpsertOrderRows(@, r.orders, 0, clock)]
        /\ Upd(p, [pc |-> IF Len(r.itemsRows) > 0 THEN "upsertItems"
                          ELSE "lastUpdated"])
        /\ UNCHANGED <<itemsTab, last_updated, clock, feed, observed, api_keys, geoTab>>

\* .from('vyapar_items').upsert(itemsRows, { onConflict: 'invoice_no,sku' })
VyaparUpsertItems(p) ==
  LET r == run[p] IN
  /\ r.kind = "vyapar" /\ r.pc = "upsertItems"
  /\ \/ Fail(p, "items")
     \/ /\ HasDuplicate(ItemKeys(r.itemsRows))
        /\ FailWith(p, "items", "duplicate")
     \/ /\ ~HasDuplicate(ItemKeys(r.itemsRows))
        /\ itemsTab' = [itemsTab EXCEPT !["vyapar"] = UpsertItemRows(@, r.itemsRows)]
        /\ Upd(p, [pc |-> "lastUpdated"])
        /\ UNCHANGED <<ordersTab, last_updated, clock, feed, observed, api_keys, geoTab>>

(***************************************************************************)
(* refresh keys: the scheduled refresh of the shiprocket and flipkart      *)
(* credentials.                                                            *)
(***************************************************************************)
\* Deno.env.get('CRON_SECRET') (0: not set) and the x-cron-secret header of
\* the request (0: no header).
CronSecrets == 0..1
ProvidedSecrets == 0..2

\* A variant of Authorized that only compares the header with the secret.
Authorized_CompareOnly(expectedCronSecret, providedCronSecret) ==
  providedCronSecret = expectedCronSecret

\* !(!expectedCronSecret || providedCronSecret !== expectedCronSecret)
Authorized(expectedCronSecret, providedCronSecret) ==
  expectedCronSecret # 0 /\ providedCronSecret = expectedCronSecret

\* A POST reaches the refresh handler: the CRON_SECRET check, then
\* if (!supabaseUrl || !serviceRoleKey) throw, before the client is created.
RefreshStart(p) ==
  /\ run[p].pc = "idle"
  /\ clock' = clock + 1
  /\ \E expected \in CronSecrets, provided \in ProvidedSecrets, configured \in BOOLEAN :
       Upd(p, [kind |-> "refresh", method |-> "POST",
               expectedCronSecret |-> expected, providedCronSecret |-> provided,
               pc |-> IF ~Authorized(expected, provided) THEN "done"
                      ELSE IF configured THEN "selectKeys" ELSE "failed",
               outcome |-> IF ~Authorized(expected, provided) THEN "unauthorized"
                           ELSE IF configured THEN "none" ELSE "failed",
               failStage |-> IF Authorized(expected, provided) /\ ~configured
                             THEN "config" ELSE "none",
               error |-> IF Authorized(expected, provided) /\ ~configured
                         THEN "missing configuration" ELSE "none",
               preKeys |-> api_keys,
               preOrders |-> ordersTab, preItems |-> itemsTab,
               preUpdated |-> last_updated])
  /\ UNCHANGED <<ordersTab, itemsTab, last_updated, feed, observed, api_keys, geoTab>>

\* A variant of RefreshNeeded that also takes a row that expires exactly one
\* day after now.
RefreshNeeded_Inclusive(row, now) ==
  /\ row.service \in {"shiprocket", "flipkart"}
  /\ \/ row.expiry = NullExpiry
     \/ row.expiry = BadExpiry
     \/ row.expiry - now <= ONE_DAY_MS

\* rows.filter(row => ...): the ids of the rows to refresh, in row order.
RefreshNeeded(row, now) ==
  /\ row.service \in {"shiprocket", "flipkart"}
  /\ \/ row.expiry = NullExpiry
     \/ row.expiry = BadExpiry
     \/ row.expiry - now < ONE_DAY_MS

RECURSIVE TargetsFrom(_, _, _)
TargetsFrom(rows, now, i) ==
  IF i > Len(rows) THEN <<>>
  ELSE (IF RefreshNeeded(rows[i], now) THEN <<i>> ELSE <<>>)
       \o TargetsFrom(rows, now, i + 1)

refreshTargets(rows, now) == TargetsFrom(rows, now, 1)

needs(rows, targets, service) ==
  \E i \in 1..Len(targets) : rows[targets[i]].service = service

\* supabase.from('api_keys').select('*'); const now = Date.now();
\* refreshTargets; 'No secrets need refreshing' when there is none.
RefreshSelect(p) ==
  LET r == run[p]
      targets == refreshTargets(api_keys, clock)
  IN
  /\ r.kind = "refresh" /\ r.pc = "selectKeys"
  /\ \/ /\ Upd(p, [pc |-> "failed", outcome |-> "failed", failStage |-> "selectKeys",
                   error |-> "store", selected |-> TRUE])
        /\ UNCHANGED <<ordersTab, itemsTab, last_updated, clock, feed, observed, api_keys, geoTab>>
     \/ /\ Upd(p, [rows |-> api_keys, now |-> clock, refreshTargets |-> targets,
                   selected |-> TRUE,
                   pc |-> IF Len(targets) = 0 THEN "done"
                          ELSE IF needs(api_keys, targets, "shiprocket")
                          THEN "shiprocketAuth" ELSE "flipkartAuth",
                   outcome |-> IF Len(targets) = 0 THEN "empty" ELSE "none"])
        /\ UNCHANGED <<ordersTab, itemsTab, last_updated, clock, feed, observed, api_keys, geoTab>>

\* The token an auth endpoint issues, a new one for each invocation.
FreshToken == MaxKeyRows + 1
IssuedToken(p) == FreshToken + (p - 1)

\* if (needsShiprocket) { email / password from the environment;
\* shiprocketToken = await fetchShiprocketToken(email, password);
\* shiprocketExpiry = now + TEN_DAYS_MS }
RefreshShiprocketAuth(p) ==
  LET r == run[p] IN
  /\ r.kind = "refresh" /\ r.pc = "shiprocketAuth"
  /\ \/ FailWith(p, "auth", "missing credentials")
     \/ /\ Upd(p, [pc |-> "failed", outcome |-> "failed", failStage |-> "auth",
                   error |-> "upstream",
                   authCalls |-> r.authCalls \cup {"shiprocket"}])
        /\ UNCHANGED <<ordersTab, itemsTab, last_updated, clock, feed, observed, api_keys, geoTab>>
     \/ /\ Upd(p, [shiprocketToken |-> IssuedToken(p),
                   shiprocketExpiry |-> r.now + TEN_DAYS_MS,
                   authCalls |-> r.authCalls \cup {"shiprocket"},
                   pc |-> IF needs(r.rows, r.refreshTargets, "flipkart")
                          THEN "flipkartAuth" ELSE "update",
                   updateIx |-> 1])
        /\ UNCHANGED <<ordersTab, itemsTab, last_updated, clock, feed, observed, api_keys, geoTab>>

\* payload.expires_in in clock ticks (0: absent, not finite or not positive).
ExpiresIn == {0, 3}

\* if (needsFlipkart) { appId / appSecret from the environment;
\* { token, expiry } = await fetchFlipkartToken(appId, appSecret) }
RefreshFlipkartAuth(p) ==
  LET r == run[p] IN
  /\ r.kind = "refresh" /\ r.pc = "flipkartAuth"
  /\ \/ FailWith(p, "auth", "missing credentials")
     \/ /\ Upd(p, [pc |-> "failed", outcome |-> "failed", failStage |-> "auth",
                   error |-> "upstream",
                   authCalls |-> r.authCalls \cup {"flipkart"}])
        /\ UNCHANGED <<ordersTab, itemsTab, last_updated, clock, feed, observed, api_keys, geoTab>>
     \/ \E expires_in \in ExpiresIn :
          /\ Upd(p, [flipkartToken |-> IssuedToken(p),
                     flipkartExpiry |-> clock + (IF expires_in > 0 THEN expires_in
                                                 ELSE ONE_DAY_MS),
                     authCalls |-> r.authCalls \cup {"flipkart"},
                     pc |-> "update", updateIx |-> 1])
          /\ UNCHANGED <<ordersTab, itemsTab, last_updated, clock, feed, observed, api_keys, geoTab>>

\* A variant of RefreshUpdate whose update carries the key alone.
RefreshUpdate_KeyOnly(p) ==
  LET r == run[p]
      id == r.refreshTargets[r.updateIx]
      row == r.rows[id]
      keyToStore == IF row.service = "shiprocket" THEN r.shiprocketToken
                    ELSE r.flipkartToken
  IN
  /\ r.kind = "refresh" /\ r.pc = "update"
  /\ \/ Fail(p, "update")
     \/ /\ api_keys' = [api_keys EXCEPT ![id] = [@ EXCEPT !.key = keyToStore]]
        /\ Upd(p, [updatedServices |-> Append(r.updatedServices, row.service),
                   updateIx |-> r.updateIx + 1,
                   pc |-> IF r.updateIx < Len(r.refreshTargets) THEN "update"
                          ELSE "done",
                   outcome |-> IF r.updateIx < Len(r.refreshTargets) THEN "none"
                               ELSE "ok"])
        /\ UNCHANGED <<ordersTab, itemsTab, last_updated, clock, feed, observed, geoTab>>

\* for (const row of refreshTargets) { ...
\*   supabase.from('api_keys').update({ key, expiry }).eq('id', row.id) }
RefreshUpdate(p) ==
  LET r == run[p]
      id == r.refreshTargets[r.updateIx]
      row == r.rows[id]
      keyToStore == IF row.service = "shiprocket" THEN r.shiprocketToken
                    ELSE r.flipkartToken
      expiryToStore == IF row.service = "shiprocket" THEN r.shiprocketExpiry
                       ELSE r.flipkartExpiry
  IN
  /\ r.kind = "refresh" /\ r.pc = "update"
  /\ \/ Fail(p, "update")
     \/ /\ api_keys' = [api_keys EXCEPT ![id] =
                          [@ EXCEPT !.key = keyToStore, !.expiry = expiryToStore]]
        /\ Upd(p, [updatedServices |-> Append(r.updatedServices, row.service),
                   updateIx |-> r.updateIx + 1,
                   pc |-> IF r.updateIx < Len(r.refreshTargets) THEN "update"
                          ELSE "done",
                   outcome |-> IF r.updateIx < Len(r.refreshTargets) THEN "none"
                               ELSE "ok"])
        /\ UNCHANGED <<ordersTab, itemsTab, last_updated, clock, feed, observed, geoTab>>

(***************************************************************************)
(* A further invocation of the same sync handler to which the channel      *)
(* reports the same pages: it reaches its writes with the same batch.      *)
(***************************************************************************)
SyncKinds == {"shiprocket", "amazon", "flipkart", "flipkartGeo", "vyapar"}

\* The write phase of a completed sync run is executed again on the same
\* normalized batch (the handler is invoked again and the channel reports
\* the same records), with a later nowIso.
Reapply(p) ==
  LET r == run[p] IN
  /\ r.pc = "done" /\ r.outcome = "ok" /\ r.kind \in SyncKinds
  /\ r.applied < MaxApply
  /\ clock' = clock + 1
  /\ Upd(p, [pc |-> "upsertOrders", outcome |-> "none", applied |-> r.applied + 1,
             nowIso |-> clock + 1, cleanupIx |-> 0,
             preOrders |-> ordersTab, preItems |-> itemsTab,
             preUpdated |-> last_updated])
  /\ UNCHANGED <<ordersTab, itemsTab, last_updated, feed, observed, api_keys, geoTab>>

\* The handlers that pull from a channel API and write order and item rows.
PullKinds == {"shiprocket", "amazon", "flipkart", "flipkartGeo"}

\* The handler is invoked again after a run that failed once its order
\* upsert was committed, during the item writes; the channel reports the
\* same records, so the new run reaches its writes with the same batch.
Retry(p) ==
  LET r == run[p] IN
  /\ r.pc = "failed" /\ r.failStage \in {"items", "cleanup"}
  /\ r.kind \in PullKinds /\ ~r.retried
  /\ clock' = clock + 1
  /\ Upd(p, [pc |-> "upsertOrders", outcome |-> "none", failStage |-> "none",
             error |-> "none", retried |-> TRUE,
             nowIso |-> clock + 1, cleanupIx |-> 0])
  /\ UNCHANGED <<ordersTab, itemsTab, last_updated, feed, observed, api_keys, geoTab>>

(***************************************************************************)
(* Initial states and specifications.                                      *)
(***************************************************************************)
\* Stores the program can have left behind: an order row is absent, or
\* present with any subset of its items; items exist only under an order.
SeedTables ==
  {t \in [orders : [OrderIds -> {NoRow, [v |-> 1, at |-> 1]}],
          items : [OrderIds -> [Keys -> {0, 1}]]] :
     \A o \in OrderIds : t.orders[o] = NoRow => \A k \in Keys : t.items[o][k] = 0}

\* What the channels report during sequential runs: every order id and
\* payload version, no updatedAt; amazon also reports an order of another
\* sales channel.
SyncFeed ==
  [ch \in Channels |->
     {r \in RawRecords :
        /\ ~r.noOrderId
        /\ r.id # 0 /\ r.ts = 0
        /\ r.nonAmazon => ch = "amazon" /\ r.id = 1 /\ r.v = 1}]

\* A credential table with a usable row for both services, and an empty one.
GoodKeys ==
  <<[service |-> "shiprocket", key |-> 1, expiry |-> MaxExpiry],
    [service |-> "flipkart", key |-> 2, expiry |-> MaxExpiry]>>

InitStore(t) ==
  /\ ordersTab = [ch \in Channels |-> t.orders]
  /\ geoTab = [i \in GeoIds |-> IF i \in OrderIds /\ t.orders[i].v # 0
                                THEN NullGeo ELSE NoGeoRow]
  /\ itemsTab = [ch \in Channels |-> t.items]
  /\ last_updated = [ch \in Channels |-> 0]
  /\ clock = 1
  /\ run = [p \in Procs |-> IdleRun]

Init ==
  /\ \E t \in SeedTables : InitStore(t)
  /\ feed = SyncFeed
  /\ observed = FALSE
  /\ api_keys = GoodKeys

Step(p) ==
  \/ \E kind \in ApiKinds : Start(p, kind)
  \/ ReadApiKey(p)
  \/ ShiprocketFetch(p)
  \/ ShiprocketUpsertOrders(p)
  \/ ShiprocketUpsertItems(p)
  \/ ShiprocketCleanup(p)
  \/ AmazonGetAccessToken(p)
  \/ AmazonFetch(p)
  \/ AmazonUpsertOrders(p)
  \/ AmazonCleanup(p)
  \/ AmazonUpsertItems(p)
  \/ FlipkartFetch(p)
  \/ FlipkartGeoFetch(p)
  \/ FlipkartUpsertOrders(p)
  \/ FlipkartCleanup(p)
  \/ FlipkartUpsertItems(p)
  \/ GeoInvoke(p)
  \/ CancelledFetch(p)
  \/ CancelledSelectItems(p)
  \/ CancelledDeleteItems(p)
  \/ CancelledSelectOrders(p)
  \/ CancelledDeleteOrders(p)
  \/ VyaparStart(p)
  \/ VyaparUpsertSales(p)
  \/ VyaparUpsertItems(p)
  \/ UpsertLastUpdated(p)
  \/ Reapply(p)
  \/ Retry(p)
  \/ \E kind \in GatedKinds \ {"refresh"}, method \in Methods : Reject(p, kind, method)
  \/ \E method \in {"POST", "GET"} : BackfillStart(p, method)
  \/ BackfillFetch(p)
  \/ BackfillUpsertOrders(p)
  \/ BackfillUpsertItems(p)
  \/ BackfillCleanup(p)

\* One invocation at a time.
Next == Step(1)

Spec == Init /\ [][Next]_vars

(***************************************************************************)
(* The connectors alone, against channels that answer any page with any    *)
(* continuation, with the history of the pages kept.                       *)
(***************************************************************************)
FullTable == [orders |-> [o \in OrderIds |-> [v |-> 1, at |-> 1]],
              items |-> [o \in OrderIds |-> [k \in Keys |-> 1]]]

\* One shipment id with every payload version and updatedAt, a record
\* without shipmentId, and a second shipment id.
PagFeed ==
  [ch \in Channels |->
     IF ch = "flipkart"
     THEN {r \in RawRecords : /\ ~r.noOrderId /\ ~r.nonAmazon
                              /\ \/ r.id = 1 /\ r.v <= 2
                                 \/ r.id \in {0, 2} /\ r.v = 1 /\ r.ts = 0}
     ELSE SyncFeed[ch]]

InitPag ==
  /\ InitStore(FullTable)
  /\ feed = PagFeed
  /\ observed = TRUE
  /\ api_keys = GoodKeys

StepPag(p) ==
  \/ \E kind \in ApiKinds : Start(p, kind)
  \/ ReadApiKey(p)
  \/ AmazonGetAccessToken(p)
  \/ ShiprocketFetch(p)
  \/ AmazonFetch(p)
  \/ FlipkartFetch(p)
  \/ FlipkartGeoFetch(p)
  \/ CancelledFetch(p)

NextPag == StepPag(1)

SpecPag == InitPag /\ [][NextPag]_vars

(***************************************************************************)
(* Two invocations on the flipkart tables, interleaved at their awaits.    *)
(***************************************************************************)
ConcFeed ==
  [ch \in Channels |-> {r \in RawRecords : ~r.noOrderId /\ r.id = 1 /\ r.v = 1 /\ r.ts = 0 /\ ~r.nonAmazon}]

InitConc ==
  /\ InitStore(FullTable)
  /\ feed = ConcFeed
  /\ observed = FALSE
  /\ api_keys = GoodKeys

StepConc(p) ==
  \/ \E kind \in {"flipkart", "flipkart-cancelled"} : Start(p, kind)
  \/ ReadApiKey(p)
  \/ FlipkartFetch(p)
  \/ FlipkartUpsertOrders(p)
  \/ FlipkartCleanup(p)
  \/ FlipkartUpsertItems(p)
  \/ UpsertLastUpdated(p)
  \/ CancelledFetch(p)
  \/ CancelledSelectItems(p)
  \/ CancelledDeleteItems(p)
  \/ CancelledSelectOrders(p)
  \/ CancelledDeleteOrders(p)

NextConc == \E p \in Procs : StepConc(p)

SpecConc == InitConc /\ [][NextConc]_vars

(***************************************************************************)
(* The geo enrichment alone, requested with any body, on a store that      *)
(* holds the orders the channel reports and two older ones.                *)
(***************************************************************************)
\* The channel reports one shipment with items and one without order items.
GeoFeed ==
  [ch \in Channels |->
     IF ch = "flipkart"
     THEN {r \in RawRecords : /\ ~r.noOrderId /\ ~r.nonAmazon /\ r.ts = 0
                              /\ \/ r.id = 1 /\ r.v = 2
                                 \/ r.id = 2 /\ r.v = 3}
     ELSE {}]

\* The geo columns of the stored orders: all null, or those of order 1
\* written by an earlier enrichment.
EnrichedGeo == [row |-> TRUE, city |-> 1, state |-> 1, pincode |-> 1]
GeoTables ==
  {[i \in GeoIds |-> NullGeo],
   [i \in GeoIds |-> IF i = 1 THEN EnrichedGeo ELSE NullGeo]}

InitGeo ==
  /\ ordersTab = [ch \in Channels |-> FullTable.orders]
  /\ itemsTab = [ch \in Channels |-> FullTable.items]
  /\ last_updated = [ch \in Channels |-> 0]
  /\ clock = 1
  /\ run = [p \in Procs |-> IdleRun]
  /\ geoTab \in GeoTables
  /\ feed = GeoFeed
  /\ observed = FALSE
  /\ api_keys = GoodKeys

StepGeo(p) ==
  \/ GeoStart(p)
  \/ ReadApiKey(p)
  \/ GeoSelectTargets(p)
  \/ GeoFetchDetails(p)
  \/ GeoUpsert(p)

NextGeo == StepGeo(1)

SpecGeo == InitGeo /\ [][NextGeo]_vars

(***************************************************************************)
(* The flipkart syncs and the enrichment run the older one invokes.        *)
(***************************************************************************)
StepSync(p) ==
  \/ \E kind \in FlipkartKinds : Start(p, kind)
  \/ ReadApiKey(p)
  \/ FlipkartFetch(p)
  \/ FlipkartGeoFetch(p)
  \/ FlipkartUpsertOrders(p)
  \/ FlipkartCleanup(p)
  \/ FlipkartUpsertItems(p)
  \/ UpsertLastUpdated(p)
  \/ GeoInvokeUnreached(p)

StepInvoked(p, q) ==
  \/ GeoInvokeCall(p, q)
  \/ ReadApiKey(q)
  \/ GeoSelectTargets(q)
  \/ GeoFetchDetails(q)
  \/ GeoUpsert(q)
  \/ GeoInvokeReturn(p, q)

NextGeoSync == StepSync(1) \/ StepInvoked(1, 2)

SpecGeoSync == InitGeo /\ [][NextGeoSync]_vars

(***************************************************************************)
(* The vyapar upload alone, with workbooks whose lines carry fractions.    *)
(***************************************************************************)
\* The tables before an upload: full, or without invoice 2.
UploadTables ==
  {FullTable,
   [orders |-> [o \in OrderIds |-> IF o = 1 THEN [v |-> 1, at |-> 1] ELSE NoRow],
    items |-> [o \in OrderIds |-> [k \in Keys |-> IF o = 1 THEN 1 ELSE 0]]]}

InitUpload ==
  /\ \E t \in UploadTables : InitStore(t)
  /\ feed = [ch \in Channels |-> {}]
  /\ observed = FALSE
  /\ api_keys = GoodKeys

StepUpload(p) ==
  \/ VyaparUpload(p)
  \/ VyaparUpsertSales(p)
  \/ VyaparUpsertItems(p)
  \/ UpsertLastUpdated(p)

NextUpload == StepUpload(1)

SpecUpload == InitUpload /\ [][NextUpload]_vars

(***************************************************************************)
(* Two invocations of the same sync handler, interleaved at their awaits,  *)
(* while the channel keeps reporting the same records.                     *)
(***************************************************************************)
DupKinds == {"shiprocket", "amazon", "flipkart"}

\* One channel reports two orders, one that lost an item and one without
\* items; the other channels report nothing.
DupFeed(channel) ==
  [ch \in Channels |->
     IF ch = channel
     THEN {r \in RawRecords : /\ ~r.noOrderId /\ ~r.nonAmazon /\ r.ts = 0
                              /\ \/ r.id = 1 /\ r.v = 2
                                 \/ r.id = 2 /\ r.v = 3}
     ELSE {}]

\* The store holds every order with every item, or lacks the second order.
DupTables ==
  {FullTable,
   [orders |-> [o \in OrderIds |-> IF o = 1 THEN [v |-> 1, at |-> 1] ELSE NoRow],
    items |-> [o \in OrderIds |-> [k \in Keys |-> IF o = 1 THEN 1 ELSE 0]]]}

InitDup ==
  /\ \E t \in DupTables : InitStore(t)
  /\ \E kind \in DupKinds : feed = DupFeed(Chan(kind))
  /\ observed = FALSE
  /\ api_keys = GoodKeys

StepDup(p) ==
  \/ \E kind \in DupKinds : Start(p, kind)
  \/ ReadApiKey(p)
  \/ AmazonGetAccessToken(p)
  \/ ShiprocketFetch(p)
  \/ AmazonFetch(p)
  \/ FlipkartFetch(p)
  \/ ShiprocketUpsertOrders(p)
  \/ ShiprocketUpsertItems(p)
  \/ ShiprocketCleanup(p)
  \/ AmazonUpsertOrders(p)
  \/ AmazonCleanup(p)
  \/ AmazonUpsertItems(p)
  \/ FlipkartUpsertOrders(p)
  \/ FlipkartCleanup(p)
  \/ FlipkartUpsertItems(p)
  \/ UpsertLastUpdated(p)

NextDup == \E p \in Procs : StepDup(p)

SpecDup == InitDup /\ [][NextDup]_vars

(***************************************************************************)
(* Two sync runs of different channels, interleaved at their awaits.       *)
(***************************************************************************)
\* Every channel reports one order that lost an item.
ChanFeed ==
  [ch \in Channels |-> {r \in RawRecords : ~r.noOrderId /\ ~r.nonAmazon /\ r.ts = 0 /\ r.id = 1 /\ r.v = 2}]

InitChan ==
  /\ \E t \in DupTables : InitStore(t)
  /\ feed = ChanFeed
  /\ observed = FALSE
  /\ api_keys = GoodKeys

\* A request to a handler while no run of the same channel is under way.
StartApart(p, kind) ==
  /\ \A q \in Procs \ {p} : run[q].pc = "idle" \/ Chan(run[q].kind) # Chan(kind)
  /\ Start(p, kind)

StepChan(p) ==
  \/ \E kind \in DupKinds : StartApart(p, kind)
  \/ ReadApiKey(p)
  \/ AmazonGetAccessToken(p)
  \/ ShiprocketFetch(p)
  \/ AmazonFetch(p)
  \/ FlipkartFetch(p)
  \/ ShiprocketUpsertOrders(p)
  \/ ShiprocketUpsertItems(p)
  \/ ShiprocketCleanup(p)
  \/ AmazonUpsertOrders(p)
  \/ AmazonCleanup(p)
  \/ AmazonUpsertItems(p)
  \/ FlipkartUpsertOrders(p)
  \/ FlipkartCleanup(p)
  \/ FlipkartUpsertItems(p)
  \/ UpsertLastUpdated(p)

NextChan == \E p \in Procs : StepChan(p)

SpecChan == InitChan /\ [][NextChan]_vars

(***************************************************************************)
(* The credential table: the refresh routine and the handlers that read a  *)
(* credential, against any small table.                                    *)
(***************************************************************************)
\* Row i has id i; a row with a key holds a key of its own.
KeyRows(i) ==
  [service : Services, key : {NoKey, i},
   expiry : {NullExpiry, BadExpiry} \cup 1..MaxExpiry]

RECURSIVE KeyTablesOf(_)
KeyTablesOf(n) ==
  IF n = 0 THEN {<<>>}
  ELSE {Append(t, row) : t \in KeyTablesOf(n - 1), row \in KeyRows(n)}

KeyTables == UNION {KeyTablesOf(n) : n \in 0..MaxKeyRows}

\* Channels that have nothing to report.
CredFeed == [ch \in Channels |-> {}]

KeyKinds == {"shiprocket", "flipkart", "flipkartGeo", "flipkart-cancelled"}

InitCred ==
  /\ InitStore(FullTable)
  /\ feed = CredFeed
  /\ observed = FALSE
  /\ api_keys \in KeyTables

StepCred(p) ==
  \/ RefreshStart(p)
  \/ \E method \in Methods : Reject(p, "refresh", method)
  \/ RefreshSelect(p)
  \/ RefreshShiprocketAuth(p)
  \/ RefreshFlipkartAuth(p)
  \/ RefreshUpdate(p)
  \/ \E kind \in KeyKinds : Start(p, kind)
  \/ ReadApiKey(p)
  \/ ShiprocketFetch(p)
  \/ FlipkartFetch(p)
  \/ FlipkartGeoFetch(p)
  \/ CancelledFetch(p)

NextCred == StepCred(1)

SpecCred == InitCred /\ [][NextCred]_vars

(***************************************************************************)
(* Two refresh invocations, interleaved at their awaits, on a table whose  *)
(* rows need a refresh.                                                    *)
(***************************************************************************)
\* A row of each service, or two rows of one service, none with an expiry.
RefreshTables ==
  {<<[service |-> "shiprocket", key |-> 1, expiry |-> NullExpiry],
     [service |-> "flipkart", key |-> 2, expiry |-> NullExpiry]>>,
   <<[service |-> "shiprocket", key |-> 1, expiry |-> NullExpiry],
     [service |-> "shiprocket", key |-> NoKey, expiry |-> BadExpiry]>>}

InitRefresh ==
  /\ InitStore(FullTable)
  /\ feed = CredFeed
  /\ observed = FALSE
  /\ api_keys \in RefreshTables

StepRefresh(p) ==
  \/ RefreshStart(p)
  \/ RefreshSelect(p)
  \/ RefreshShiprocketAuth(p)
  \/ RefreshFlipkartAuth(p)
  \/ RefreshUpdate(p)

NextRefresh == \E p \in Procs : StepRefresh(p)

SpecRefresh == InitRefresh /\ [][NextRefresh]_vars

(***************************************************************************)
(* Properties.                                                             *)
(***************************************************************************)
StoredKeys(ch, o) == {k \in Keys : itemsTab[ch][o][k] # 0}

\* The orders a run writes, and the item keys it reports for one of them.
Batch(r) == IF r.kind = "amazon" THEN filteredOrders(r.orders) ELSE r.orders
BatchIds(r) == {Batch(r)[i].id : i \in 1..Len(Batch(r))}
ReportedKeys(r, o) ==
  IF r.kind = "vyapar"
  THEN {r.itemsRows[i].key : i \in {j \in 1..Len(r.itemsRows) : r.itemsRows[j].oid = o}}
  ELSE UNION {Range(Products(Batch(r)[i].v)) :
                i \in {j \in 1..Len(Batch(r)) : Batch(r)[j].id = o}}

Succeeded(r) == r.pc = "done" /\ r.outcome = "ok"

\* C1: after a sync run of any channel completes successfully, every order
\* of its batch holds exactly the items the run reported for it, whatever
\* items were stored before and also when none is reported.
C1_ItemAuthority ==
  \A p \in Procs :
    LET r == run[p] IN
    (r.kind \in SyncKinds /\ Succeeded(r)) =>
      \A o \in BatchIds(r) : StoredKeys(Chan(r.kind), o) = ReportedKeys(r, o)

\* C2: in the Shiprocket, Amazon and Flipkart syncs the stored items of
\* every order outside the run's batch are what they were before the run.
C2_CleanupFrame ==
  \A p \in Procs :
    LET r == run[p] IN
    r.kind \in {"shiprocket", "amazon", "flipkart", "flipkartGeo"} =>
      \A o \in OrderIds \ BatchIds(r) :
        itemsTab[Chan(r.kind)][o] = r.preItems[Chan(r.kind)][o]

\* A Shiprocket run whose cleanup deleted a stale item of a batch order while
\* an order outside the batch held an item with a key the batch did not report.
C2_Witness ==
  \E p \in Procs :
    LET r == run[p] IN
    /\ r.kind = "shiprocket" /\ Succeeded(r)
    /\ \E o \in BatchIds(r), o2 \in OrderIds \ BatchIds(r) :
         /\ \E k \in Keys : r.preItems["shiprocket"][o][k] # 0
                            /\ itemsTab["shiprocket"][o][k] = 0
         /\ StoredKeys("shiprocket", o2) \ ReportedKeys(r, o) # {}

C4_LoopFailsFast ==
  \A p \in Procs : run[p].loopHit => run[p].pc = "failed"

\* C5: a connector stops after the page that signals no more pages, and
\* what it returns is the concatenation of the records of its pages in page
\* order (for the Flipkart connectors, which key their result by shipment
\* id: the shipment ids of its pages).
C5_Concatenation ==
  \A p \in Procs :
    LET r == run[p]
        pageRecords == Flatten(r.outLog)
    IN
    r.kind \in {"shiprocket", "amazon", "flipkart", "flipkartGeo"} =>
      /\ r.lastSeen => r.pc # "fetch"
      /\ r.outLog # <<>> =>
           IF r.kind \in FlipkartKinds
           THEN {r.out[i].id : i \in 1..Len(r.out)}
                  = {pageRecords[i].id : i \in 1..Len(pageRecords)} \ {0}
           ELSE r.out = pageRecords

\* C6: a run that failed at a page fetch has left every order, item and
\* watermark row as it was before the run.
C6_FetchFailureWritesNothing ==
  \A p \in Procs :
    LET r == run[p] IN
    (r.pc = "failed" /\ r.failStage = "fetch") =>
      /\ ordersTab = r.preOrders
      /\ itemsTab = r.preItems
      /\ last_updated = r.preUpdated

\* A Shiprocket run that failed at a page fetch after a page with an order.
C6_Witness ==
  \E p \in Procs :
    LET r == run[p] IN
    /\ r.kind = "shiprocket" /\ r.pc = "failed" /\ r.failStage = "fetch"
    /\ r.error = "upstream" /\ r.fetches >= 1 /\ Len(r.orders) >= 1

\* The updatedAt instant of a record; absent or unparseable is older than
\* every instant.
Instant(rec) == IF rec.ts <= 0 THEN 0 ELSE rec.ts

\* The records with shipment id `id` in the order the run met them.
Encountered(r, id) ==
  LET all == Flatten(r.log)
      Same(rec) == rec.id = id
  IN SelectSeq(all, Same)

\* The record with the latest instant, the last one met among equals.
Kept(e) ==
  e[CHOOSE i \in 1..Len(e) :
      \A j \in 1..Len(e) :
        \/ Instant(e[j]) < Instant(e[i])
        \/ Instant(e[j]) = Instant(e[i]) /\ j <= i]

\* C7: the batch of a Flipkart run holds, for every shipment id met in the
\* run, exactly one record: the one with the latest updatedAt, and among
\* records with equal or no updatedAt the one met last.
C7_LatestWins ==
  \A p \in Procs :
    LET r == run[p] IN
    (r.kind \in FlipkartKinds /\ r.pc \in {"upsertOrders", "done"}) =>
      \A id \in OrderIds :
        LET e == Encountered(r, id)
            kept == {i \in 1..Len(r.orders) : r.orders[i].id = id}
        IN IF e = <<>> THEN kept = {}
           ELSE /\ Cardinality(kept) = 1
                /\ \A i \in kept : r.orders[i] = Kept(e)

\* A Flipkart run that met shipment 1 three times over both filters: two
\* records with the same updatedAt and then one without; the second is kept.
C7_Witness ==
  \E p \in Procs :
    LET r == run[p]
        e == Encountered(r, 1)
    IN
    /\ r.kind = "flipkart" /\ r.pc = "upsertOrders" /\ Len(r.filterLog) = 1
    /\ Len(e) = 3
    /\ e[1].ts = e[2].ts /\ e[1].ts > 0 /\ e[1].v # e[2].v
    /\ e[3].ts <= 0
    /\ r.orders = <<e[2]>>

\* C8: a Shiprocket or Amazon run that met an order id on two pages with
\* different values, and was not stopped by a channel or store outage, has
\* succeeded and left the order row with the values of the later page.
C8_DuplicateAcrossPages ==
  \A p \in Procs :
    LET r == run[p]
        b == Batch(r)
    IN
    (r.kind \in {"shiprocket", "amazon"} /\ r.pc \in {"done", "failed"}
     /\ r.error \notin {"upstream", "store"}) =>
      \A i, j \in 1..Len(b) :
        (i < j /\ b[i].id = b[j].id /\ b[i].v # b[j].v
         /\ \A l \in 1..Len(b) : b[l].id = b[j].id => l <= j) =>
          /\ r.outcome = "ok"
          /\ ordersTab[Chan(r.kind)][b[j].id].v = b[j].v

\* C9: after a purge run that succeeded, no flipkart order or item of a
\* cancelled shipment id is stored and every other flipkart order and item
\* is unchanged.
C9_Purge ==
  \A p \in Procs :
    LET r == run[p]
        cancelled == Range(r.cancelledShipmentIds)
    IN
    (r.kind = "flipkart-cancelled" /\ r.pc = "done") =>
      \A o \in OrderIds :
        IF o \in cancelled
        THEN ordersTab["flipkart"][o] = NoRow /\ StoredKeys("flipkart", o) = {}
        ELSE /\ ordersTab["flipkart"][o] = r.preOrders["flipkart"][o]
             /\ itemsTab["flipkart"][o] = r.preItems["flipkart"][o]

\* A purge that removed an order and its items while another order that was
\* not cancelled is stored with items.
C9_Witness ==
  \E p \in Procs :
    LET r == run[p] IN
    /\ r.kind = "flipkart-cancelled" /\ Succeeded(r)
    /\ r.removedOrders >= 1 /\ r.removedItems >= 1
    /\ \E o \in OrderIds \ Range(r.cancelledShipmentIds) :
         ordersTab["flipkart"][o] # NoRow /\ StoredKeys("flipkart", o) # {}

\* C10: the counts a purge answers with are the numbers of item rows and
\* order rows its two deletes removed.
C10_CountsMatch ==
  \A p \in Procs :
    LET r == run[p] IN
    (r.kind = "flipkart-cancelled" /\ Succeeded(r)) =>
      /\ r.itemsCount = r.removedItems
      /\ r.ordersCount = r.removedOrders

\* The handlers that write order and item rows.
WritingKinds == SyncKinds \cup {"shiprocket-backfill"}

\* C11: a sync run that processed its batch without error has upserted the
\* watermark row of its channel, no store write of the run follows that
\* upsert, and a run that failed has left the watermark row as it was.
C11_WatermarkLast ==
  \A p \in Procs :
    LET r == run[p]
        ch == Chan(r.kind)
    IN
    r.kind \in WritingKinds =>
      /\ Succeeded(r) => last_updated[ch] # r.preUpdated[ch]
      /\ last_updated[ch] # r.preUpdated[ch] => r.pc \in {"geoInvoke", "done"}
      /\ r.pc = "failed" => last_updated = r.preUpdated

\* The records a completed run got from its connector.
Returned(r) ==
  IF r.kind = "flipkart-cancelled" THEN r.cancelledShipmentIds ELSE Batch(r)

\* C12: a run whose connector returned no record has answered with the
\* informational message and has left every order and item row as it was;
\* the vyapar run has stamped its watermark all the same.
C12_EmptyResult ==
  \A p \in Procs :
    LET r == run[p] IN
    (/\ r.kind \in WritingKinds \cup {"flipkart-cancelled"}
     /\ r.pc = "done" /\ r.outcome \notin {"methodNotAllowed", "preflight"}
     /\ Returned(r) = <<>>) =>
      /\ r.outcome = "empty"
      /\ ordersTab = r.preOrders /\ itemsTab = r.preItems
      /\ r.kind = "vyapar" => last_updated["vyapar"] = clock
                              /\ last_updated["vyapar"] # r.preUpdated["vyapar"]

\* A vyapar upload without a sale row that completed over a store with rows.
C12_Witness ==
  \E p \in Procs :
    LET r == run[p] IN
    /\ r.kind = "vyapar" /\ r.pc = "done" /\ r.outcome = "empty"
    /\ last_updated["vyapar"] # r.preUpdated["vyapar"]
    /\ \E o \in OrderIds : StoredKeys("vyapar", o) # {}

\* The order rows a run upserts from the records it fetched.
RowsToUpsert(kind, orders) ==
  CASE kind = "amazon" -> OrderRows(filteredOrders(orders))
    [] kind \in FlipkartKinds -> ordersToUpsert(orders)
    [] OTHER -> OrderRows(orders)

RECURSIVE CleanAll(_, _, _)
CleanAll(tab, orders, entries) ==
  IF entries = <<>> THEN tab
  ELSE CleanAll(DeleteItemsNotIn(tab, Head(entries), skusByOrder(orders)[Head(entries)]),
                orders, Tail(entries))

\* The order rows and the item rows one run of a handler leaves when it runs
\* alone and completes: its store calls in program order.
SingleRunOrders(kind, orders, tab) ==
  UpsertOrderRows(tab, RowsToUpsert(kind, orders), 0, 0)

SingleRunItems(kind, orders, tab) ==
  LET ids == Range(OrderKeys(RowsToUpsert(kind, orders))) IN
  CASE kind = "shiprocket" ->
         IF Len(ItemRows(orders)) = 0 THEN tab
         ELSE CleanAll(UpsertItemRows(tab, ItemRows(orders)), orders,
                       CleanupEntries(orders))
    [] kind = "amazon" ->
         IF Len(ItemRows(filteredOrders(orders))) = 0 THEN DeleteItemsIn(tab, ids)
         ELSE UpsertItemRows(DeleteItemsIn(tab, ids), ItemRows(filteredOrders(orders)))
    [] OTHER ->
         IF Len(ItemRows(orders)) = 0 THEN DeleteItemsIn(tab, ids)
         ELSE UpsertItemRows(DeleteItemsIn(tab, ids), ItemRows(orders))

C14_RetryRepairs ==
  \A p \in Procs :
    LET r == run[p]
        ch == Chan(r.kind)
        rows == RowsToUpsert(r.kind, r.orders)
    IN
    r.kind \in PullKinds =>
      /\ (r.pc = "failed" /\ r.failStage \in {"items", "cleanup"}) =>
           \A i \in 1..Len(rows) : ordersTab[ch][rows[i].id].v = rows[i].v
      /\ (r.retried /\ Succeeded(r)) =>
           \A i \in 1..Len(rows) :
             StoredKeys(ch, rows[i].id) = ReportedKeys(r, rows[i].id)

\* A refresh run that has read the credential table.
HasSelected(r) == r.kind = "refresh" /\ r.selected /\ r.failStage # "selectKeys"

\* The refresh policy as stated: a shiprocket or flipkart row whose expiry is
\* null, unparseable or less than one day after now.
Qualifies(row, now) ==
  /\ row.service = "shiprocket" \/ row.service = "flipkart"
  /\ row.expiry \in {NullExpiry, BadExpiry} \/ row.expiry < now + ONE_DAY_MS

FailedService(r) ==
  IF r.failStage = "update" THEN r.rows[r.refreshTargets[r.updateIx]].service
  ELSE IF r.shiprocketToken = NoKey THEN "shiprocket" ELSE "flipkart"

\* C16: when a refresh run that had to refresh both services failed in the
\* auth call or in a credential update of one service, every row of the other
\* service that needed the refresh holds a new token.
C16_IndependentRefresh ==
  \A p \in Procs :
    LET r == run[p] IN
    (/\ HasSelected(r) /\ r.pc = "failed"
     /\ r.failStage \in {"auth", "update"} /\ r.error \in {"upstream", "store"}
     /\ needs(r.rows, r.refreshTargets, "shiprocket")
     /\ needs(r.rows, r.refreshTargets, "flipkart")) =>
      \A i \in 1..Len(r.refreshTargets) :
        LET id == r.refreshTargets[i] IN
        r.rows[id].service # FailedService(r) => api_keys[id].key = FreshToken

\* C17: a run that has sent a request to its channel API read a credential
\* whose expiry is an instant later than the present.
C17_ExpiryConfirmed ==
  \A p \in Procs :
    LET r == run[p] IN
    (r.kind \in KeyKinds /\ r.fetches >= 1) =>
      /\ r.apiKeyRow # <<>>
      /\ r.apiKeyRow[1].expiry \notin {NullExpiry, BadExpiry}
      /\ r.apiKeyRow[1].expiry > clock

C20_Unauthorized ==
  \A p \in Procs :
    LET r == run[p] IN
    (/\ r.kind = "refresh" /\ r.method = "POST"
     /\ r.providedCronSecret # r.expectedCronSecret \/ r.expectedCronSecret = 0) =>
      /\ r.pc = "done" /\ r.outcome = "unauthorized"
      /\ ~r.selected /\ r.authCalls = {}
      /\ api_keys = r.preKeys

\* A POST without header was answered 401 while no secret is configured and
\* a shiprocket credential without expiry is stored.
C20_Witness ==
  \E p \in Procs :
    LET r == run[p] IN
    /\ r.kind = "refresh" /\ r.method = "POST" /\ r.outcome = "unauthorized"
    /\ r.expectedCronSecret = 0 /\ r.providedCronSecret = 0
    /\ \E i \in 1..Len(api_keys) :
         api_keys[i].service = "shiprocket" /\ api_keys[i].expiry = NullExpiry

\* C19: a request with a method other than POST has been answered 405, and
\* its handler has read no credential, received no page of a channel and
\* left every order, item and watermark row as it was.
C19_MethodGate ==
  \A p \in Procs :
    LET r == run[p] IN
    r.method \notin {"none", "POST"} =>
      /\ r.pc = "done" /\ r.outcome = "methodNotAllowed"
      /\ r.apiKeyRow = <<>> /\ r.fetches = 0
      /\ ordersTab = r.preOrders /\ itemsTab = r.preItems
      /\ last_updated = r.preUpdated

\* C21: a run that failed because a configuration value is missing (the
\* store endpoint or key, or the secrets of a channel) has read no row of
\* the store, called no auth endpoint, received no page of a channel and
\* changed no credential row.
C21_ConfigFirst ==
  \A p \in Procs :
    LET r == run[p] IN
    r.error \in {"missing configuration", "missing credentials"} =>
      /\ ~r.selected /\ r.authCalls = {} /\ r.fetches = 0
      /\ r.kind = "refresh" => api_keys = r.preKeys

\* The geo-enrichment runs that have selected their targets.
HasTargets(r) == r.kind = "geo-enrich" /\ r.batchIx >= 1

\* The largest number of rows a selection limit admits.
LimitCap(limit) ==
  LET clamped == selectionLimit(limit) IN clamped.n

\* C22: in the geo enrichment a non-empty explicit shipmentIds list is the
\* target set, without duplicates; otherwise the targets are stored orders
\* that miss city, state or pincode, at most as many as the request's limit
\* clamped into 1..MAX_SELECTION_LIMIT (DEFAULT_SELECTION_LIMIT without a
\* limit), and never more than MAX_SELECTION_LIMIT.
C22_TargetSelection ==
  \A p \in Procs :
    LET r == run[p] IN
    HasTargets(r) =>
      /\ ~HasDuplicate(r.shipmentIds)
      /\ Len(r.body.shipmentIds) > 0 =>
           /\ ~r.fromStore
           /\ Range(r.shipmentIds) = Range(r.body.shipmentIds) \ {0}
      /\ Len(r.body.shipmentIds) = 0 =>
           /\ r.fromStore
           /\ Range(r.shipmentIds) \subseteq MissingGeo(r.preGeo)
           /\ Len(r.shipmentIds) <= LimitCap(r.body.limit)
           /\ Len(r.shipmentIds) <= MAX_SELECTION_LIMIT

\* The enrichment runs that a sync run p invoked.
InvokedBy(p) == {q \in Procs : run[q].kind = "geo-enrich" /\ run[q].caller = p}

\* C23: a flipkart sync invokes the geo enrichment once, after its orders,
\* items and watermark are written, with the shipment ids of the orders it
\* upserted; the invoked enrichment selects and updates only these ids, and
\* the sync answers with success whatever the enrichment did.
C23_EnrichAfterSync ==
  \A p \in Procs :
    LET r == run[p] IN
    (r.kind = "flipkartGeo" /\ r.invokes > 0) =>
      /\ r.invokes = 1
      /\ last_updated["flipkart"] = r.nowIso
      /\ r.invokedIds = OrderKeys(ordersToUpsert(r.orders))
      /\ r.pc = "done" => r.outcome = "ok"
      /\ \A q \in InvokedBy(p) :
           /\ run[q].body.shipmentIds = r.invokedIds
           /\ Range(run[q].shipmentIds) \subseteq Range(r.invokedIds)
           /\ \A i \in 1..Len(run[q].updates) :
                run[q].updates[i].id \in Range(r.invokedIds)

\* The flipkart sync runs that have just upserted their order batch.
JustUpserted(r) ==
  r.kind \in FlipkartKinds /\ r.pc \in {"cleanup", "upsertItems", "lastUpdated"}

Uploaded(r) == r.kind = "vyapar" /\ r.sheets # <<>>
ValidSales(r) ==
  {row.inv : row \in {x \in Range(r.sheets[1].report) : x.inv # 0 /\ x.date # 0}}

\* The item rows of the run are in the store.
ItemsWritten(r) ==
  Uploaded(r) /\ r.pc \in {"lastUpdated", "done"} /\ Len(r.itemsRows) > 0

\* C24: in a vyapar upload the sale rows without a valid invoice number or
\* with a date that does not parse are dropped and the others are kept; every
\* item row the run writes belongs to a sale row the run has written, and no
\* item of another invoice is changed.
C24_ItemsOfWrittenSales ==
  \A p \in Procs :
    LET r == run[p] IN
    Uploaded(r) =>
      /\ \A i \in 1..Len(r.orders) : r.orders[i].id # 0 /\ r.orders[i].v # 0
      /\ {r.orders[i].id : i \in 1..Len(r.orders)} = ValidSales(r)
      /\ \A i \in 1..Len(r.itemsRows) : r.itemsRows[i].oid \in ValidSales(r)
      /\ ItemsWritten(r) =>
           \A i \in 1..Len(r.itemsRows) :
             LET row == r.itemsRows[i] IN
             /\ itemsTab["vyapar"][row.oid][row.key] = row.v
             /\ \E j \in 1..Len(r.orders) :
                  /\ r.orders[j].id = row.oid
                  /\ ordersTab["vyapar"][row.oid].v = r.orders[j].v
      /\ \A o \in OrderIds, k \in Keys :
           itemsTab["vyapar"][o][k] # r.preItems["vyapar"][o][k] =>
             /\ o \in ValidSales(r)
             /\ ordersTab["vyapar"][o].v # 0

\* An upload with a sale row whose date does not parse and a line of that
\* invoice has ended with success, and only the line of the kept sale is written.
C24_Witness ==
  \E p \in Procs :
    LET r == run[p] IN
    /\ Uploaded(r) /\ r.pc = "done" /\ r.outcome = "ok"
    /\ r.sheets[1].report = <<[inv |-> 1, date |-> 0], [inv |-> 2, date |-> 2]>>
    /\ \E l \in Range(r.sheets[1].items) : l.inv = 1 /\ ValidLine(l)
    /\ Len(r.itemsRows) = 1 /\ r.itemsRows[1].oid = 2
    /\ itemsTab["vyapar"][1] = r.preItems["vyapar"][1]
    /\ itemsTab["vyapar"][2] # r.preItems["vyapar"][2]

\* The valid Sale Items lines of an invoice and SKU, of a sale that is kept.
PairLines(r, inv, sku) ==
  SelectSeq(r.sheets[1].items,
            LAMBDA l : /\ l.inv = inv /\ l.sku = sku /\ l.inv \in ValidSales(r)
                       /\ l.inv # 0 /\ l.quantity # NullCell
                       /\ l.amount # NullCell /\ l.gst # NullCell)

\* Sums over lines: the quantities (in halves), the quantities rounded to
\* units line by line, and amount minus GST (in halves of a hundredth).
RECURSIVE SumQuantity(_)
SumQuantity(lines) ==
  IF lines = <<>> THEN 0 ELSE Head(lines).quantity + SumQuantity(Tail(lines))

RECURSIVE SumRoundedQuantity(_)
SumRoundedQuantity(lines) ==
  IF lines = <<>> THEN 0
  ELSE (IF Head(lines).quantity % 2 = 0 THEN Head(lines).quantity \div 2
        ELSE Head(lines).quantity \div 2 + 1)
       + SumRoundedQuantity(Tail(lines))

RECURSIVE SumNet(_)
SumNet(lines) ==
  IF lines = <<>> THEN 0
  ELSE Head(lines).amount - Head(lines).gst + SumNet(Tail(lines))

\* C25 as stated: the item rows of an upload hold one row per (invoice, SKU),
\* whose quantity and net price are the sums of the quantities and of amount
\* minus GST over the valid lines of the pair.
C25_ExactSums ==
  \A p \in Procs :
    LET r == run[p] IN
    Uploaded(r) =>
      /\ ~HasDuplicate(ItemKeys(r.itemsRows))
      /\ \A i \in 1..Len(r.itemsRows) :
           LET row == r.itemsRows[i]
               lines == PairLines(r, row.oid, row.key)
           IN /\ 2 * row.v = SumQuantity(lines)
              /\ 2 * row.net_price = SumNet(lines)

\* C25: the item rows of an upload hold one row per (invoice, SKU) that has a
\* valid line; its quantity is the sum of the line quantities, each rounded
\* to a whole unit, and its net price is the sum of amount minus GST over the
\* valid lines of the pair, rounded to the nearest hundredth.
C25_RoundedSums ==
  \A p \in Procs :
    LET r == run[p] IN
    Uploaded(r) =>
      /\ ~HasDuplicate(ItemKeys(r.itemsRows))
      /\ \A o \in OrderIds, k \in Keys :
           PairLines(r, o, k) # <<>> =>
             \E i \in 1..Len(r.itemsRows) : r.itemsRows[i].oid = o /\ r.itemsRows[i].key = k
      /\ \A i \in 1..Len(r.itemsRows) :
           LET row == r.itemsRows[i]
               lines == PairLines(r, row.oid, row.key)
           IN /\ lines # <<>>
              /\ row.v = SumRoundedQuantity(lines)
              /\ 2 * row.net_price - SumNet(lines) \in {0, 1}

\* An upload with two lines of one invoice and SKU, with fractional quantity
\* and amount, has written their row.
C25_Witness ==
  \E p \in Procs :
    LET r == run[p] IN
    /\ ItemsWritten(r) /\ r.pc = "done" /\ r.outcome = "ok"
    /\ Len(r.sheets[1].items) = 2 /\ Len(r.itemsRows) = 1
    /\ Len(PairLines(r, r.itemsRows[1].oid, r.itemsRows[1].key)) = 2
    /\ SumQuantity(r.sheets[1].items) % 2 = 1
    /\ SumNet(r.sheets[1].items) % 2 = 1
    /\ itemsTab["vyapar"][r.itemsRows[1].oid][r.itemsRows[1].key] = r.itemsRows[1].v

Stages(kind) ==
  CASE kind = "shiprocket" ->
         <<"apiKey", "fetch", "upsertOrders", "upsertItems", "cleanup", "lastUpdated", "done">>
    [] kind = "amazon" ->
         <<"token", "fetch", "upsertOrders", "cleanup", "upsertItems", "lastUpdated", "done">>
    [] kind = "flipkartGeo" ->
         <<"apiKey", "fetch", "upsertOrders", "cleanup", "upsertItems", "lastUpdated",
           "geoInvoke", "geoAwait", "done">>
    [] kind = "flipkart-cancelled" ->
         <<"apiKey", "fetch", "selectItems", "deleteItems", "selectOrders",
           "deleteOrders", "done">>
    [] kind = "geo-enrich" ->
         <<"apiKey", "selectTargets", "details", "geoUpsert", "done">>
    [] OTHER ->
         <<"apiKey", "fetch", "upsertOrders", "cleanup", "upsertItems", "lastUpdated", "done">>

StageOf(r) ==
  IF \E i \in 1..Len(Stages(r.kind)) : Stages(r.kind)[i] = r.pc
  THEN CHOOSE i \in 1..Len(Stages(r.kind)) : Stages(r.kind)[i] = r.pc
  ELSE 0

\* One step of a run: to a later await, or to the next page or the next
\* order of the loop it is in, or to the failed end.
Advances(a, b) ==
  \/ b.pc = "failed" /\ b.outcome = "failed"
  \/ b.outcome # "failed" /\ StageOf(b) > StageOf(a)
  \/ /\ b.outcome # "failed" /\ b.pc = a.pc
     /\ \/ a.pc = "fetch" /\ b.fetches > a.fetches
        \/ a.pc = "cleanup" /\ b.cleanupIx > a.cleanupIx
        \/ a.pc = "details" /\ b.batchIx > a.batchIx

\* C27: a run never repeats a step, and once a step has failed the run is
\* over: its outcome is the failed one, it takes no further step, and every
\* channel request and store write is a step of a run that has not failed.
C27_FailStop ==
  [][/\ \E p \in Procs : run'[p] # run[p]
     /\ \A p \in Procs :
          run'[p] # run[p] =>
            /\ run[p].outcome # "failed" /\ run[p].pc \notin {"failed", "done"}
            /\ run[p].pc # "idle" => Advances(run[p], run'[p])]_vars

\* A run has failed at its item write, after its order write.
C27_Witness ==
  \E p \in Procs :
    LET r == run[p] IN
    /\ r.kind = "shiprocket" /\ r.pc = "failed" /\ r.outcome = "failed"
    /\ r.failStage = "items"
    /\ ordersTab # r.preOrders

\* The tables and the watermark of the channels other than ch are left alone.
OthersUnchanged(ch) ==
  \A other \in Channels \ {ch} :
    /\ ordersTab'[other] = ordersTab[other]
    /\ itemsTab'[other] = itemsTab[other]
    /\ last_updated'[other] = last_updated[other]

\* The rows of the channel of every completed run are those the run leaves
\* when it runs alone on the store it found, and the channels without a run
\* hold what the runs found.
AsOneAfterTheOther ==
  \A p \in Procs :
    LET r == run[p]
        ch == Chan(r.kind)
    IN
    (r.kind \in DupKinds /\ Succeeded(r)) =>
      /\ \A other \in Channels :
           (\A q \in Procs : run[q].pc = "idle" \/ Chan(run[q].kind) # other) =>
             /\ ordersTab[other] = r.preOrders[other]
             /\ itemsTab[other] = r.preItems[other]
             /\ last_updated[other] = r.preUpdated[other]
      /\ itemsTab[ch] = SingleRunItems(r.kind, r.orders, r.preItems[ch])
      /\ \A o \in OrderIds :
           ordersTab[ch][o].v = SingleRunOrders(r.kind, r.orders, r.preOrders[ch])[o].v
      /\ last_updated[ch] # r.preUpdated[ch]

\* C28: a step of a sync run changes no order table, item table or watermark
\* row of another channel, and when runs of different channels interleave,
\* each channel ends with the rows its run leaves when it runs alone.
C28_ChannelsApart ==
  [][/\ \A p \in Procs : run'[p] # run[p] => OthersUnchanged(Chan(run'[p].kind))
     /\ AsOneAfterTheOther']_vars

\* Two runs of different channels have both completed, one having written
\* between two writes of the other.
C28_Witness ==
  \E p \in Procs, q \in Procs :
    LET r == run[p]
        s == run[q]
    IN
    /\ r.kind = "shiprocket" /\ s.kind = "amazon"
    /\ Succeeded(r) /\ Succeeded(s)
    /\ r.orders # <<>> /\ s.orders # <<>>
    /\ r.nowIso < s.nowIso /\ last_updated["amazon"] < last_updated["shiprocket"]

\* The key and the expiry that invocation p holds for the service of a row.
HeldFor(p, service) ==
  IF service = "shiprocket"
  THEN [key |-> run[p].shiprocketToken, expiry |-> run[p].shiprocketExpiry]
  ELSE [key |-> run[p].flipkartToken, expiry |-> run[p].flipkartExpiry]

\* Invocation p has issued its update of row id.
HasUpdated(p, id) ==
  /\ run[p].kind = "refresh"
  /\ \E i \in 1..Len(run[p].refreshTargets) :
       run[p].refreshTargets[i] = id /\ i < run[p].updateIx

\* C29: with two refresh invocations interleaved, every credential row keeps
\* its service and holds either the key and expiry it had before the
\* invocations, no invocation having updated it, or the key and the expiry
\* that one invocation obtained for the service of the row and wrote
\* together.
C29_WrittenTogether ==
  \A id \in 1..Len(api_keys) :
    LET row == api_keys[id] IN
    /\ \A p \in Procs :
         run[p].kind = "refresh" /\ run[p].preKeys # <<>> =>
           /\ row.service = run[p].preKeys[id].service
           /\ (\A q \in Procs : ~HasUpdated(q, id)) =>
                row.key = run[p].preKeys[id].key /\ row.expiry = run[p].preKeys[id].expiry
    /\ (\E q \in Procs : HasUpdated(q, id)) =>
         \E q \in Procs :
           /\ HasUpdated(q, id)
           /\ [key |-> row.key, expiry |-> row.expiry] = HeldFor(q, row.service)
           /\ row.key = IssuedToken(q)

\* Both invocations have updated the same row, and the row holds what the
\* second one wrote.
C29_Witness ==
  /\ HasUpdated(1, 1) /\ HasUpdated(2, 1)
  /\ run[1].pc = "done" /\ run[2].pc = "done"
  /\ api_keys[1].key = IssuedToken(2)
  /\ api_keys[2].key = IssuedToken(1)

\* The count fields of the 200 responses of the workbook upload, with their
\* values: the empty-result response writes both as literal zeros.
VyaparResponseCounts(r) ==
  IF r.outcome = "empty"
  THEN {<<"sales_processed", 0>>, <<"items_processed", 0>>}
  ELSE {<<"sales_processed", Len(r.orders)>>, <<"items_processed", Len(r.itemsRows)>>}

\* The count fields of the 200 responses of the cancelled-shipment cleanup.
CancelledResponseCounts(r) ==
  IF r.outcome = "empty"
  THEN {<<"cancelled_shipments_found", 0>>, <<"deleted_orders", 0>>,
        <<"deleted_items", 0>>}
  ELSE {<<"cancelled_shipments_found", Len(r.cancelledShipmentIds)>>,
        <<"deleted_orders", r.ordersCount>>, <<"deleted_items", r.itemsCount>>}

\* The count fields of the 200 responses of a channel sync: none on an empty
\* result.
SyncResponseCounts(r) ==
  IF r.outcome = "empty"
  THEN {}
  ELSE {<<"orders_processed", Len(RowsToUpsert(r.kind, r.orders))>>,
        <<"items_processed", Len(ItemRows(Batch(r)))>>}

\* The count fields of the 200 response of a run, with their values.
ResponseCounts(r) ==
  CASE r.kind = "vyapar" -> VyaparResponseCounts(r)
    [] r.kind = "flipkart-cancelled" -> CancelledResponseCounts(r)
    [] r.kind \in PullKinds -> SyncResponseCounts(r)
    [] OTHER -> {}

\* The 200 response of the run carries a message field.
ResponseMessage(r) ==
  r.outcome = "empty" \/ (r.kind = "vyapar" /\ r.outcome = "ok")

\* C30: a run that ends with an empty result answers with a message and with
\* no count field that is zero.
C30_EmptyMessageOnly ==
  \A p \in Procs :
    LET r == run[p] IN
    (r.pc = "done" /\ r.outcome = "empty") =>
      /\ ResponseMessage(r)
      /\ \A field \in ResponseCounts(r) : field[2] # 0

(***************************************************************************)
(* Amount normalisation of the shiprocket and amazon syncs.                *)
(***************************************************************************)
\* The characters of a reported amount: a digit, the decimal point, the
\* sign, and a character that is none of these (a letter, a currency sign).
AmountChars == {"1", ".", "-", "a"}

RECURSIVE StringsUpTo(_)
StringsUpTo(n) ==
  IF n = 0 THEN {<<>>}
  ELSE LET shorter == StringsUpTo(n - 1)
       IN shorter \cup {Append(s, c) : s \in {t \in shorter : Len(t) = n - 1},
                                      c \in AmountChars}

\* Numbers are kept in units of 10^-MaxAmountLen.
Scale == 10 ^ MaxAmountLen

\* A JSON value of an amount field: absent or null, a string, or a number.
NullAmount == [t |-> "null", s |-> <<>>, n |-> 0]
StringAmount(s) == [t |-> "str", s |-> s, n |-> 0]
NumberAmount(n) == [t |-> "num", s |-> <<>>, n |-> n]
RawAmounts ==
  {NullAmount} \cup {StringAmount(s) : s \in StringsUpTo(MaxAmountLen)}
               \cup {NumberAmount(n * Scale) : n \in {-1, 0, 1, 2}}

\* A JavaScript number or null: a finite value, NaN, or null.
Num(n) == [t |-> "num", n |-> n]
NaN == [t |-> "nan", n |-> 0]
Null == [t |-> "null", n |-> 0]

DigitSeq == <<"0", "1", "2", "3", "4", "5", "6", "7", "8", "9">>
Digits == {DigitSeq[i] : i \in 1..Len(DigitSeq)}
DigitValue(c) == (CHOOSE i \in 1..Len(DigitSeq) : DigitSeq[i] = c) - 1

RECURSIVE DigitsValue(_)
DigitsValue(s) ==
  IF s = <<>> THEN 0 ELSE 10 * DigitsValue(SubSeq(s, 1, Len(s) - 1)) + DigitValue(s[Len(s)])

\* Number(string) on the strings above: the empty string is 0; otherwise an
\* optional sign, digits with at most one decimal point and at least one
\* digit; anything else is NaN.
StringToNumber(s) ==
  IF s = <<>> THEN Num(0)
  ELSE LET neg == s[1] = "-"
           body == IF neg THEN Tail(s) ELSE s
           dots == {i \in 1..Len(body) : body[i] = "."}
           valid == /\ \A i \in 1..Len(body) : body[i] \in Digits \cup {"."}
                    /\ Cardinality(dots) <= 1
                    /\ \E i \in 1..Len(body) : body[i] \in Digits
           dot == IF dots = {} THEN Len(body) + 1 ELSE CHOOSE i \in dots : TRUE
           int == SubSeq(body, 1, dot - 1)
           frac == SubSeq(body, dot + 1, Len(body))
           abs == DigitsValue(int) * Scale
                  + DigitsValue(frac) * 10 ^ (MaxAmountLen - Len(frac))
       IN IF valid THEN Num(IF neg THEN 0 - abs ELSE abs) ELSE NaN

\* String(number) of a whole number between -2 and 2.
NumberToString(n) ==
  LET whole == (IF n < 0 THEN 0 - n ELSE n) \div Scale
      digit == DigitSeq[whole + 1]
  IN IF n < 0 THEN <<"-", digit>> ELSE <<digit>>

\* String(value).replace(/[^0-9.-]/g, '')
StripNonNumeric(s) == SelectSeq(s, LAMBDA c : c \in Digits \cup {".", "-"})

\* parseNumber (shiprocket)
parseNumber(value) ==
  IF value.t = "null" \/ (value.t = "str" /\ value.s = <<>>) THEN Num(0)
  ELSE LET parsed == StringToNumber(StripNonNumeric(
                       IF value.t = "num" THEN NumberToString(value.n) ELSE value.s))
       IN IF parsed = NaN THEN Num(0) ELSE parsed

\* parseAmount (amazon)
parseAmount(value) ==
  IF value.t = "null" \/ (value.t = "str" /\ value.s = <<>>) THEN Null
  ELSE LET parsed == IF value.t = "num" THEN Num(value.n) ELSE StringToNumber(value.s)
       IN IF parsed = NaN THEN Null ELSE parsed

\* numer / denom rounded to the nearest whole number, halves away from zero.
DivRound(numer, denom) ==
  IF numer < 0 THEN 0 - ((2 * (0 - numer) + denom) \div (2 * denom))
  ELSE (2 * numer + denom) \div (2 * denom)

\* toFixedNumber: null stays null, a number is rounded to two decimals.
toFixedNumber(value) ==
  IF value = Null THEN Null
  ELSE Num(DivRound(value.n, Scale \div 100) * (Scale \div 100))

\* The amounts of a shiprocket order row and of its item row, every amount
\* field of the order reporting the same raw value.
ShiprocketAmounts(raw, other) ==
  [total_amount |-> parseNumber(raw),
   tax_amount |-> parseNumber(raw),
   total_discount |-> Num(0 + parseNumber(raw).n + parseNumber(other).n),
   selling_price |-> Num(parseNumber(raw).n - parseNumber(other).n)]

\* The amounts of an amazon item row.
AmazonAmounts(raw, quantity) ==
  LET unitPrice == parseAmount(raw)
      grossRevenue == IF unitPrice = Null THEN Null ELSE Num(unitPrice.n * quantity)
  \* toFixedNumber(grossRevenue / 1.18), 100 / 1.18 being 5000 / 59
  IN [unit_price |-> toFixedNumber(unitPrice),
      net_revenue |-> IF grossRevenue = Null THEN Null
                      ELSE Num(DivRound(grossRevenue.n * 5, 59 * (Scale \div 1000))
                               * (Scale \div 100))]

\* processedOrders / itemsToInsert of the shiprocket sync for one order line.
ShiprocketNormalise(p) ==
  LET r == run[p] IN
  /\ r.pc = "idle" /\ r.raw # <<>>
  /\ Upd(p, [kind |-> "shiprocket", pc |-> "normalised",
             written |-> ShiprocketAmounts(r.raw[1], r.raw[2])])
  /\ UNCHANGED <<ordersTab, itemsTab, last_updated, clock, feed, observed, api_keys, geoTab>>

\* itemsToUpsert of the amazon sync for one order item.
AmazonNormalise(p) ==
  LET r == run[p] IN
  /\ r.pc = "idle" /\ r.raw # <<>>
  /\ Upd(p, [kind |-> "amazon", pc |-> "normalised",
             written |-> AmazonAmounts(r.raw[1], r.quantity)])
  /\ UNCHANGED <<ordersTab, itemsTab, last_updated, clock, feed, observed, api_keys, geoTab>>

\* One line is reported: an amount, a second amount (the item's discount or
\* a second discount code) and a quantity.
InitAmount ==
  /\ ordersTab = [ch \in Channels |-> FullTable.orders]
  /\ itemsTab = [ch \in Channels |-> FullTable.items]
  /\ geoTab = [i \in GeoIds |-> NoGeoRow]
  /\ last_updated = [ch \in Channels |-> 0]
  /\ clock = 1
  /\ feed = [ch \in Channels |-> {}]
  /\ observed = FALSE
  /\ api_keys = GoodKeys
  /\ \E raw \in RawAmounts, other \in {NullAmount, StringAmount(<<"1">>)},
        quantity \in {0, 2} :
       run = [p \in Procs |->
                IF p = 1 THEN [IdleRun EXCEPT !.raw = <<raw, other>>,
                                              !.quantity = quantity]
                ELSE IdleRun]

NextAmount == ShiprocketNormalise(1) \/ AmazonNormalise(1)

SpecAmount == InitAmount /\ [][NextAmount]_vars

\* The value has no numeric reading for the handler that normalises it:
\* null or absent, the empty string, or a string that Number() turns into NaN
\* (after the shiprocket handler has stripped it).
Unparseable(kind, value) ==
  \/ value.t = "null"
  \/ /\ value.t = "str"
     /\ \/ value.s = <<>>
        \/ StringToNumber(IF kind = "shiprocket" THEN StripNonNumeric(value.s)
                          ELSE value.s) = NaN

\* The shiprocket sync writes an amount without a numeric reading as 0 in
\* total, tax, discount and selling price.
ShiprocketZero ==
  \A p \in Procs :
    LET r == run[p] IN
    (r.pc = "normalised" /\ r.kind = "shiprocket" /\ Unparseable(r.kind, r.raw[1])) =>
      /\ r.written.total_amount = Num(0)
      /\ r.written.tax_amount = Num(0)
      /\ r.written.total_discount = parseNumber(r.raw[2])
      /\ r.written.selling_price = Num(0 - parseNumber(r.raw[2]).n)

\* C31: an amount without a numeric reading is written as 0 wherever it feeds
\* arithmetic: the shiprocket amounts, and the amazon unit price with the
\* revenue computed from it.
C31_ZeroForArithmetic ==
  /\ ShiprocketZero
  /\ \A p \in Procs :
       LET r == run[p] IN
       (r.pc = "normalised" /\ r.kind = "amazon" /\ Unparseable(r.kind, r.raw[1])) =>
         /\ r.written.unit_price = Num(0)
         /\ r.written.net_revenue = Num(0)

(***************************************************************************)
(* Date parsing of the vyapar upload.                                      *)
(***************************************************************************)
\* String(n) of a whole number n >= 0.
RECURSIVE DigitsOf(_)
DigitsOf(n) ==
  IF n < 10 THEN <<DigitSeq[n + 1]>> ELSE Append(DigitsOf(n \div 10), DigitSeq[(n % 10) + 1])

\* s.padStart(width, '0')
RECURSIVE padStart(_, _)
padStart(s, width) == IF Len(s) >= width THEN s ELSE padStart(<<"0">> \o s, width)

IsLeap(y) == (y % 4 = 0 /\ y % 100 # 0) \/ y % 400 = 0
DaysInMonth(y, m) ==
  CASE m \in {4, 6, 9, 11} -> 30
    [] m = 2 -> IF IsLeap(y) THEN 29 ELSE 28
    [] OTHER -> 31
DaysInYear(y) == IF IsLeap(y) THEN 366 ELSE 365

\* new Date(1900, 0, 1) moved on by days: the date `days` days after
\* the first day of month m of year y.
RECURSIVE DateAfter(_, _, _)
DateAfter(y, m, days) ==
  IF m = 1 /\ days >= DaysInYear(y) THEN DateAfter(y + 1, 1, days - DaysInYear(y))
  ELSE IF days >= DaysInMonth(y, m)
       THEN DateAfter(IF m = 12 THEN y + 1 ELSE y, IF m = 12 THEN 1 ELSE m + 1,
                      days - DaysInMonth(y, m))
       ELSE [y |-> y, m |-> m, d |-> days + 1]

\* The largest serial number parse_date_code accepts (9999-12-31).
MaxSerial == 2958465

\* XLSX.SSF.parse_date_code of a whole serial number: null outside the
\* accepted range; serial 0 and serial 60 are the two dates of the
\* spreadsheet calendar that no calendar has.
parse_date_code(v) ==
  IF v > MaxSerial \/ v < 0 THEN Null
  ELSE IF v = 60 THEN [y |-> 1900, m |-> 2, d |-> 29]
  ELSE IF v = 0 THEN [y |-> 1900, m |-> 1, d |-> 0]
  ELSE DateAfter(1900, 1, (IF v > 60 THEN v - 1 ELSE v) - 1)

\* `${year}-${month}-${day}`
DateText(year, month, day) == year \o <<"-">> \o month \o <<"-">> \o day

\* The text is a calendar date in YYYY-MM-DD form.
IsCalendarDate(text) ==
  /\ Len(text) = 10
  /\ text[5] = "-" /\ text[8] = "-"
  /\ \A i \in {1, 2, 3, 4, 6, 7, 9, 10} : text[i] \in Digits
  /\ LET y == DigitsValue(SubSeq(text, 1, 4))
         m == DigitsValue(SubSeq(text, 6, 7))
         d == DigitsValue(SubSeq(text, 9, 10))
     IN m \in 1..12 /\ d \in 1..DaysInMonth(y, m)

\* String.prototype.trim
RECURSIVE trim(_)
trim(s) ==
  IF s # <<>> /\ Head(s) = " " THEN trim(Tail(s))
  ELSE IF s # <<>> /\ s[Len(s)] = " " THEN trim(SubSeq(s, 1, Len(s) - 1))
  ELSE s

\* stringValue.match(/^(\d{1,2})\/(\d{1,2})\/(\d{4})$/): the three groups,
\* or <<>> without a match.
dmyMatch(s) ==
  LET slashes == {i \in 1..Len(s) : s[i] = "/"}
  IN IF /\ Cardinality(slashes) = 2
        /\ \A i \in 1..Len(s) : s[i] \in Digits \cup {"/"}
     THEN LET a == CHOOSE i \in slashes : \A j \in slashes : i <= j
              b == CHOOSE i \in slashes : \A j \in slashes : j <= i
              day == SubSeq(s, 1, a - 1)
              month == SubSeq(s, a + 1, b - 1)
              year == SubSeq(s, b + 1, Len(s))
          IN IF Len(day) \in {1, 2} /\ Len(month) \in {1, 2} /\ Len(year) = 4
             THEN <<day, month, year>> ELSE <<>>
     ELSE <<>>

\* A date that the engine's own reading of a non-standard string can give.
LegacyDate == DateText(<<"2", "0", "0", "1">>, <<"0", "1">>, <<"0", "1">>)

\* new Date(stringValue) followed by toISOString().slice(0, 10): a date-only
\* ISO string of a calendar date is that date; a string with a character
\* other than digits, sign, slash and space is an invalid date; how any
\* other string is read is left to the engine.
NewDateOutcomes(s) ==
  IF IsCalendarDate(s) THEN {[t |-> "text", s |-> s]}
  ELSE IF \E i \in 1..Len(s) : s[i] \notin Digits \cup {"-", "/", " "}
       THEN {[t |-> "null", s |-> <<>>]}
       ELSE {[t |-> "null", s |-> <<>>], [t |-> "text", s |-> LegacyDate]}

\* A cell of the Date column: absent, a Date object (by its UTC calendar
\* date; or an invalid one), a number, or a string.
NoDate == [t |-> "null", s |-> <<>>, n |-> 0]
DateObject(s) == [t |-> "date", s |-> s, n |-> 0]
InvalidDateObject == [t |-> "invalid", s |-> <<>>, n |-> 0]
SerialDate(n) == [t |-> "num", s |-> <<>>, n |-> n]
StringDate(s) == [t |-> "str", s |-> s, n |-> 0]

\* parseDateFromVyapar: the values it can return for a cell.
parseDateFromVyapar(value) ==
  IF value.t = "null" \/ (value.t = "str" /\ value.s = <<>>)
  THEN {[t |-> "null", s |-> <<>>]}
  ELSE IF value.t = "date" THEN {[t |-> "text", s |-> value.s]}
  ELSE IF value.t = "num" /\ parse_date_code(value.n) # Null
  THEN LET parsed == parse_date_code(value.n)
       IN {[t |-> "text",
            s |-> DateText(padStart(DigitsOf(parsed.y), 4), padStart(DigitsOf(parsed.m), 2),
                           padStart(DigitsOf(parsed.d), 2))]}
  ELSE LET stringValue ==
             trim(CASE value.t = "num" ->
                         IF value.n < 0 THEN <<"-">> \o DigitsOf(0 - value.n)
                         ELSE DigitsOf(value.n)
                    [] value.t = "invalid" ->
                         <<"I", "n", "v", "a", "l", "i", "d", " ", "D", "a", "t", "e">>
                    [] OTHER -> value.s)
           match == dmyMatch(stringValue)
       IN IF match # <<>>
          THEN {[t |-> "text",
                 s |-> DateText(match[3], padStart(match[2], 2), padStart(match[1], 2))]}
          ELSE NewDateOutcomes(stringValue)

\* The day/month/year literals of the model.
DayTexts == {<<"0">>, <<"1">>, <<"0", "1">>, <<"2", "9">>, <<"3", "0">>, <<"3", "1">>, <<"3", "2">>}
MonthTexts == {<<"0">>, <<"1">>, <<"2">>, <<"0", "2">>, <<"4">>, <<"1", "2">>, <<"1", "3">>}
YearTexts == {<<"2", "0", "2", "4">>, <<"2", "0", "2", "6">>}
Literal(day, month, year) == day \o <<"/">> \o month \o <<"/">> \o year

DateCells ==
  {NoDate, InvalidDateObject, StringDate(<<>>),
   DateObject(DateText(<<"2", "0", "2", "6">>, <<"0", "1">>, <<"3", "1">>)),
   StringDate(DateText(<<"2", "0", "2", "6">>, <<"0", "1">>, <<"3", "1">>)),
   StringDate(<<"n", "o", "t", "-", "a", "-", "d", "a", "t", "e">>),
   StringDate(<<"1", "/", "1", "/", "2", "6">>),
   StringDate(<<" ", "1", "/", "1", "/", "2", "0", "2", "6", " ">>)}
  \cup {SerialDate(n) : n \in {-1, 0, 1, 59, 60, 61, 45000, MaxSerial + 1}}
  \cup {StringDate(Literal(d, m, y)) : d \in DayTexts, m \in MonthTexts, y \in YearTexts}

\* salesRows: the Date cell of a Sale Report row is parsed.
VyaparParseDate(p) ==
  LET r == run[p] IN
  /\ r.pc = "idle" /\ r.raw # <<>>
  /\ \E out \in parseDateFromVyapar(r.raw[1]) :
       Upd(p, [kind |-> "vyapar", pc |-> "parsed", written |-> out])
  /\ UNCHANGED <<ordersTab, itemsTab, last_updated, clock, feed, observed, api_keys, geoTab>>

InitDate ==
  /\ ordersTab = [ch \in Channels |-> FullTable.orders]
  /\ itemsTab = [ch \in Channels |-> FullTable.items]
  /\ geoTab = [i \in GeoIds |-> NoGeoRow]
  /\ last_updated = [ch \in Channels |-> 0]
  /\ clock = 1
  /\ feed = [ch \in Channels |-> {}]
  /\ observed = FALSE
  /\ api_keys = GoodKeys
  /\ \E cell \in DateCells :
       run = [p \in Procs |-> IF p = 1 THEN [IdleRun EXCEPT !.raw = <<cell>>] ELSE IdleRun]

NextDate == VyaparParseDate(1)

SpecDate == InitDate /\ [][NextDate]_vars

\* The cell holds a day/month/year literal, by the pattern of the parser.
IsLiteral(cell) == cell.t = "str" /\ dmyMatch(trim(cell.s)) # <<>>

\* C32: the parsed date is null or a calendar date in YYYY-MM-DD form; a
\* d/m/yyyy literal of a calendar date gives yyyy-mm-dd, a literal whose day
\* or month is out of range gives null, a serial number in range gives a
\* calendar date, and serial 45000 gives 2023-03-15.
C32_NullOrCalendarDate ==
  \A p \in Procs :
    LET r == run[p]
        cell == r.raw[1]
        m == dmyMatch(trim(cell.s))
        text == DateText(m[3], padStart(m[2], 2), padStart(m[1], 2))
    IN r.pc = "parsed" =>
         /\ r.written.t = "null" \/ IsCalendarDate(r.written.s)
         /\ IsLiteral(cell) =>
              IF IsCalendarDate(text) THEN r.written = [t |-> "text", s |-> text]
              ELSE r.written.t = "null"
         /\ (cell.t = "num" /\ cell.n \in 0..MaxSerial) => r.written.t = "text"
         /\ cell = SerialDate(45000) =>
              r.written.s = DateText(<<"2", "0", "2", "3">>, <<"0", "3">>, <<"1", "5">>)

(***************************************************************************)
(* Flipkart syncs, cancellation purges and enrichment runs, one run after  *)
(* the other, over shipments whose first order item may lack its orderId.  *)
(***************************************************************************)
\* Shipment 1 is reported with both items or with none, with and without
\* the orderId of its first item.
OrphanFeed ==
  [ch \in Channels |->
     IF ch = "flipkart"
     THEN {r \in RawRecords : /\ ~r.nonAmazon /\ r.ts = 0
                              /\ r.id = 1 /\ r.v \in {1, 3}}
     ELSE {}]

\* Both orders stored with their items, or only order 2.
OrphanTables ==
  {FullTable,
   [orders |-> [o \in OrderIds |-> IF o = 2 THEN [v |-> 1, at |-> 1] ELSE NoRow],
    items |-> [o \in OrderIds |-> [k \in Keys |-> IF o = 2 THEN 1 ELSE 0]]]}

InitOrphan ==
  /\ \E t \in OrphanTables : InitStore(t)
  /\ feed = OrphanFeed
  /\ observed = FALSE
  /\ api_keys = GoodKeys

StepOrphan(p) ==
  \/ \E kind \in {"flipkart", "flipkart-cancelled"} : Start(p, kind)
  \/ GeoStart(p)
  \/ ReadApiKey(p)
  \/ FlipkartFetch(p)
  \/ FlipkartUpsertOrders(p)
  \/ FlipkartCleanup(p)
  \/ FlipkartUpsertItems(p)
  \/ UpsertLastUpdated(p)
  \/ CancelledFetch(p)
  \/ CancelledSelectItems(p)
  \/ CancelledDeleteItems(p)
  \/ CancelledSelectOrders(p)
  \/ CancelledDeleteOrders(p)
  \/ GeoSelectTargets(p)
  \/ GeoFetchDetails(p)
  \/ GeoUpsert(p)

\* The second run starts when the first has ended.
NextOrphan ==
  \/ StepOrphan(1)
  \/ run[1].pc \in {"done", "failed"} /\ StepOrphan(2)

SpecOrphan == InitOrphan /\ [][NextOrphan]_vars

\* C33: every stored flipkart item belongs to a stored flipkart order.
C33_ItemsHaveOrders ==
  \A o \in OrderIds :
    (\E k \in Keys : itemsTab["flipkart"][o][k] # 0) => ordersTab["flipkart"][o] # NoRow

(***************************************************************************)
(* Two invocations of the same sync handler, interleaved at their awaits,  *)
(* while the channel reports an order with two different item lists.       *)
(***************************************************************************)
\* One channel reports order 1 with its first item only and with its last
\* item only; the other channels report nothing.
RaceFeed(channel) ==
  [ch \in Channels |->
     IF ch = channel
     THEN {[id |-> 1, v |-> v, ts |-> 0, nonAmazon |-> FALSE, noOrderId |-> FALSE] :
             v \in {Len(KeySeq), LastKeyOnly}}
     ELSE {}]

InitRace ==
  /\ \E t \in DupTables : InitStore(t)
  /\ \E kind \in DupKinds : feed = RaceFeed(Chan(kind))
  /\ observed = FALSE
  /\ api_keys = GoodKeys

NextRace == \E p \in Procs : StepDup(p)

SpecRace == InitRace /\ [][NextRace]_vars

\* The item rows a run reports for an order, as the items table holds them.
ReportedItems(r, o) ==
  LET rows == ItemRows(Batch(r)) IN
  [k \in Keys |->
     IF \E i \in 1..Len(rows) : rows[i].oid = o /\ rows[i].key = k
     THEN (CHOOSE row \in Range(rows) : row.oid = o /\ row.key = k).v
     ELSE 0]

\* C34: after two runs of one channel have both completed, every order of
\* both batches holds the items of one of the two runs.
C34_ItemsOfOneRun ==
  LET a == run[1]
      b == run[2]
  IN (a.kind = b.kind /\ a.kind \in DupKinds /\ Succeeded(a) /\ Succeeded(b)) =>
       \A o \in BatchIds(a) \cap BatchIds(b) :
         itemsTab[Chan(a.kind)][o] \in {ReportedItems(a, o), ReportedItems(b, o)}

(***************************************************************************)
(* A cancellation purge and an enrichment run, interleaved at their awaits.*)
(***************************************************************************)
StepPurge(p) ==
  \/ Start(p, "flipkart-cancelled")
  \/ ReadApiKey(p)
  \/ CancelledFetch(p)
  \/ CancelledSelectItems(p)
  \/ CancelledDeleteItems(p)
  \/ CancelledSelectOrders(p)
  \/ CancelledDeleteOrders(p)

NextPurge == StepPurge(1) \/ StepGeo(2)

SpecPurge == InitGeo /\ [][NextPurge]_vars

\* The shipment ids whose order row the purge of run c has deleted.
Purged(c) ==
  IF c.kind = "flipkart-cancelled" /\ Succeeded(c)
  THEN Range(c.cancelledShipmentIds) \cap OrderIds ELSE {}

\* C35: once the purge and an enrichment run that selected its targets from
\* the store have both ended, no purged shipment that the enrichment had
\* selected has an order row.
C35_PurgedStaysGone ==
  \A p, q \in Procs :
    LET c == run[p]
        e == run[q]
    IN (e.kind = "geo-enrich" /\ e.pc \in {"done", "failed"} /\ e.fromStore) =>
         \A id \in Purged(c) \cap Range(e.shipmentIds) :
           ordersTab["flipkart"][id] = NoRow

\* Invocation q of the refresh handler started after invocation p had
\* completed with every row it refreshed written.
Follows(p, q) ==
  /\ p # q
  /\ run[p].kind = "refresh" /\ Succeeded(run[p])
  /\ run[q].kind = "refresh" /\ run[q].preKeys # <<>>
  /\ \A i \in 1..Len(run[p].refreshTargets) :
       run[q].preKeys[run[p].refreshTargets[i]].key = IssuedToken(p)

\* C36: an invocation that follows a successful refresh finds the expiry of
\* every refreshed row at least one day ahead and selects none of them.
C36_NoRepeatRefresh ==
  \A p, q \in Procs :
    (Follows(p, q) /\ run[q].rows # <<>>) =>
      \A i \in 1..Len(run[p].refreshTargets) :
        LET id == run[p].refreshTargets[i] IN
        /\ run[q].rows[id].expiry - run[q].now >= ONE_DAY_MS
        /\ id \notin Range(run[q].refreshTargets)

(***************************************************************************)
(* One Amazon sync over orders that carry their sales channel name.        *)
(***************************************************************************)
\* The spellings of NON_AMAZON a response can carry.
NonAmazonSpellings ==
  {NON_AMAZON,
   <<"n", "o", "n", "_", "a", "m", "a", "z", "o", "n">>,
   <<"N", "o", "n", "_", "A", "m", "a", "z", "o", "n">>}

\* Order 1 is sold off Amazon, in each spelling of the channel name; order 2
\* is an Amazon order, with its channel name or with no salesChannel at all.
NonAmazonFeed ==
  [ch \in Channels |->
     IF ch = "amazon"
     THEN {[id |-> 1, v |-> 2, ts |-> 0, noOrderId |-> FALSE, channelName |-> n] :
             n \in NonAmazonSpellings}
          \cup {[id |-> 2, v |-> 2, ts |-> 0, noOrderId |-> FALSE,
                 channelName |-> <<"A", "m", "a", "z", "o", "n", ".", "i", "n">>],
                [id |-> 2, v |-> 2, ts |-> 0, noOrderId |-> FALSE, nonAmazon |-> FALSE]}
     ELSE {}]

InitNonAmazon ==
  /\ \E t \in OrphanTables : InitStore(t)
  /\ feed = NonAmazonFeed
  /\ observed = FALSE
  /\ api_keys = GoodKeys

NextNonAmazon ==
  \/ Start(1, "amazon")
  \/ AmazonGetAccessToken(1)
  \/ AmazonFetch(1)
  \/ AmazonUpsertOrders(1)
  \/ AmazonCleanup(1)
  \/ AmazonUpsertItems(1)
  \/ UpsertLastUpdated(1)

SpecNonAmazon == InitNonAmazon /\ [][NextNonAmazon]_vars

\* The response named the order's sales channel NON_AMAZON, in some spelling.
NamedNonAmazon(order) ==
  /\ "channelName" \in DOMAIN order
  /\ order.channelName \in NonAmazonSpellings

\* The run fetched the order id, and only from the NON_AMAZON channel.
OnlyNonAmazon(r, id) ==
  /\ \E i \in 1..Len(r.orders) : r.orders[i].id = id
  /\ \A i \in 1..Len(r.orders) : r.orders[i].id = id => NamedNonAmazon(r.orders[i])

Partitions(batches, items, chunkSize) ==
  /\ Flatten(batches) = items
  /\ \A i \in 1..Len(batches) :
       /\ Len(batches[i]) >= 1
       /\ Len(batches[i]) <= chunkSize
       /\ i < Len(batches) => Len(batches[i]) = chunkSize

\* The number of details calls of the run that request the shipment id.
CallsFor(r, id) ==
  Cardinality({c \in 1..Len(r.calls) : \E i \in 1..Len(r.calls[c]) : r.calls[c][i] = id})

\* C38: chunkArray cuts a list into batches that give the list back in order,
\* none empty, none longer than the chunk size and all but the last of
\* exactly that size; an enrichment run requests no id twice and no more than
\* DETAILS_BATCH_LIMIT ids in a call, has requested every target id in
\* exactly one call once all calls were answered, and leaves the store as it
\* was when a details call fails.
C38_BatchesPartitionTargets ==
  \A p \in Procs :
    LET r == run[p] IN
    r.kind = "geo-enrich" =>
      /\ \A n \in 1..MaxChunkSize : Partitions(chunkArray(r.shipmentIds, n), r.shipmentIds, n)
      /\ \A c \in 1..Len(r.calls) :
           /\ Len(r.calls[c]) <= DETAILS_BATCH_LIMIT
           /\ \A i, j \in 1..Len(r.calls[c]) : r.calls[c][i] = r.calls[c][j] => i = j
           /\ Range(r.calls[c]) \subseteq Range(r.shipmentIds)
      /\ \A id \in Range(r.shipmentIds) : CallsFor(r, id) <= 1
      /\ r.pc \in {"geoUpsert", "done"} =>
           \A id \in Range(r.shipmentIds) : CallsFor(r, id) = 1
      /\ (r.pc = "failed" /\ r.failStage = "fetch") =>
           ordersTab = r.preOrders /\ geoTab = r.preGeo

\* A run with three targets whose first details call returned rows and whose
\* second call has failed.
C38_Witness ==
  LET r == run[1] IN
  /\ r.kind = "geo-enrich" /\ r.pc = "failed" /\ r.failStage = "fetch"
  /\ Len(r.shipmentIds) = 3 /\ Len(r.calls) = 2
  /\ Len(r.calls[1]) = DETAILS_BATCH_LIMIT
  /\ Len(r.updates) > 0

====
